---- MODULE Spec2Model ----
(***************************************************************************)
(* A model of the service-enrichment core of TraLa: the Traefik rule       *)
(* parser (ReconstructURL, DetermineProtocol), the router processor        *)
(* (ProcessRouter, IsExcluded), the icon cascade (FindIcon) and the two    *)
(* remote catalog caches (GetSelfHstIconNames, GetSelfHstAppTags).         *)
(*                                                                         *)
(* Go strings are TLA+ strings; the helpers below work on them character   *)
(* by character with Len, SubSeq and \o, the way the Go library calls do.  *)
(***************************************************************************)
EXTENDS Integers, Sequences, FiniteSets, TLC

VARIABLES
    now,                  \* wall clock, in hours since the zero time.Time
    selfhstIcons,         \* cache.go: selfhstIcons
    selfhstCacheTime,     \* cache.go: selfhstCacheTime
    selfhstApps,          \* cache.go: selfhstApps
    selfhstAppsCacheTime, \* cache.go: selfhstAppsCacheTime
    lastCall,             \* the last catalog call: what it was handed and what it returned
    configuration,        \* config.go: configuration (read-only after Load)
    worker,               \* one ProcessRouter goroutine: its position and its locals
    userIcons,            \* cache.go: userIcons and sortedUserIconNames
    probes,               \* network probes issued by the current FindIcon call
    parse,                \* one application of ReconstructURL: its inputs and its result
    grouping,             \* one call of CalculateGroups: its slice and its locals
    manual,               \* one call of GetManualServices: the declarations and its result
    request,              \* one ServicesHandler request: its goroutines, channel and result
    refresh               \* callers inside a catalog getter, the cache mutex and the fetches made

vars == <<now, selfhstIcons, selfhstCacheTime, selfhstApps, selfhstAppsCacheTime,
          lastCall, configuration, worker, userIcons, probes, parse, grouping, manual, request, refresh>>

-----------------------------------------------------------------------------
(* Strings *)

Char(s, i) == SubSeq(s, i, i)

HasPrefix(s, p) == Len(s) >= Len(p) /\ SubSeq(s, 1, Len(p)) = p

HasSuffix(s, p) == Len(s) >= Len(p) /\ SubSeq(s, Len(s) - Len(p) + 1, Len(s)) = p

TrimPrefix(s, p) == IF HasPrefix(s, p) THEN SubSeq(s, Len(p) + 1, Len(s)) ELSE s

TrimSuffix(s, p) == IF HasSuffix(s, p) THEN SubSeq(s, 1, Len(s) - Len(p)) ELSE s

UpperChars == "ABCDEFGHIJKLMNOPQRSTUVWXYZ"
LowerChars == "abcdefghijklmnopqrstuvwxyz"

ToLowerChar(c) ==
    IF \E i \in 1..Len(UpperChars) : Char(UpperChars, i) = c
    THEN Char(LowerChars, CHOOSE i \in 1..Len(UpperChars) : Char(UpperChars, i) = c)
    ELSE c

RECURSIVE ToLower(_)
ToLower(s) == IF s = "" THEN "" ELSE ToLowerChar(Char(s, 1)) \o ToLower(SubSeq(s, 2, Len(s)))

\* strings.ReplaceAll for a one-character old and new.
RECURSIVE ReplaceAll(_, _, _)
ReplaceAll(s, old, new) ==
    IF s = "" THEN ""
    ELSE (IF Char(s, 1) = old THEN new ELSE Char(s, 1)) \o ReplaceAll(SubSeq(s, 2, Len(s)), old, new)

\* The least index >= i at which character c stands in s, 0 when there is none.
RECURSIVE IndexFrom(_, _, _)
IndexFrom(s, c, i) ==
    IF i > Len(s) THEN 0
    ELSE IF Char(s, i) = c THEN i
    ELSE IndexFrom(s, c, i + 1)

\* strings.Split(s, sep)[0] for a one-character sep.
SplitFirst(s, sep) ==
    LET i == IndexFrom(s, sep, 1) IN IF i = 0 THEN s ELSE SubSeq(s, 1, i - 1)

\* The byte order Go compares strings by, on the characters the model uses.
CharOrder == "-./0123456789:ABCDEFGHIJKLMNOPQRSTUVWXYZ_abcdefghijklmnopqrstuvwxyz"

Ord(c) == IF \E i \in 1..Len(CharOrder) : Char(CharOrder, i) = c
          THEN CHOOSE i \in 1..Len(CharOrder) : Char(CharOrder, i) = c
          ELSE 0

RECURSIVE StrLess(_, _)
StrLess(a, b) ==
    IF b = "" THEN FALSE
    ELSE IF a = "" THEN TRUE
    ELSE IF Char(a, 1) = Char(b, 1) THEN StrLess(SubSeq(a, 2, Len(a)), SubSeq(b, 2, Len(b)))
    ELSE Ord(Char(a, 1)) < Ord(Char(b, 1))

-----------------------------------------------------------------------------
(* The rule parser: hostRegex, pathRegex, DetermineProtocol, ReconstructURL *)

\* A nil *json.RawMessage / nil json.RawMessage.
NilTLS == "<nil>"

\* models.TraefikRouter
Router(name, rule, eps, tls) ==
    [Name |-> name, Rule |-> rule, Priority |-> 0, EntryPoints |-> eps, TLS |-> tls]

\* models.TraefikEntryPoint (HTTP.TLS is the field TLS)
EntryPoint(name, address, tls) == [Name |-> name, Address |-> address, TLS |-> tls]

IsSpace(c) == c \in {" ", "\t", "\n", "\r"}

\* \s* : the first index >= i that holds no white space (Len(s)+1 at the end).
RECURSIVE SkipSpace(_, _)
SkipSpace(s, i) ==
    IF i <= Len(s) /\ IsSpace(Char(s, i)) THEN SkipSpace(s, i + 1) ELSE i

\* The back quote that delimits a rule's arguments. A TLA+ string cannot hold a
\* back quote, so the model writes the character as an apostrophe throughout.
BackQuote == "'"

\* The capture of  kw\(\s*'([^']+)'\s*\)  matched at index i of s, as <<capture>>;
\* <<>> when the pattern does not match there.
SubmatchAt(s, kw, i) ==
    LET open == i + Len(kw) + 1
        k    == SkipSpace(s, open)
        e    == IndexFrom(s, BackQuote, k + 1)
        m    == SkipSpace(s, e + 1)
    IN  IF /\ i + Len(kw) <= Len(s)
           /\ SubSeq(s, i, i + Len(kw)) = kw \o "("
           /\ k <= Len(s) /\ Char(s, k) = BackQuote
           /\ e > k + 1
           /\ m <= Len(s) /\ Char(s, m) = ")"
        THEN <<SubSeq(s, k + 1, e - 1)>>
        ELSE <<>>

\* regexp.FindStringSubmatch: the capture of the leftmost match, <<>> without one.
FindStringSubmatch(s, kw) ==
    LET hits == {i \in 1..Len(s) : SubmatchAt(s, kw, i) # <<>>}
    IN  IF hits = {} THEN <<>>
        ELSE SubmatchAt(s, kw, CHOOSE i \in hits : \A j \in hits : i <= j)

hostRegex(rule) == FindStringSubmatch(rule, "Host")
pathRegex(rule) == FindStringSubmatch(rule, "PathPrefix")

TLSPresent(tls) == tls # NilTLS /\ tls # "null" /\ tls # "{}" /\ tls # ""

\* DetermineProtocol without its test for "{}".
DetermineProtocol_BracesCount(router, entryPoint) ==
    IF router.TLS \notin {NilTLS, "null", ""} THEN "https"
    ELSE IF entryPoint.TLS \notin {NilTLS, "null", ""} THEN "https"
    ELSE "http"

DetermineProtocol(router, entryPoint) ==
    IF TLSPresent(router.TLS) THEN "https"
    ELSE IF TLSPresent(entryPoint.TLS) THEN "https"
    ELSE "http"

\* The "Clean up the path" lines of ReconstructURL.
CleanPath(rule) ==
    LET pathMatches == pathRegex(rule)
        path0 == IF pathMatches # <<>> THEN pathMatches[1] ELSE ""
        path1 == IF path0 # "" /\ ~HasPrefix(path0, "/") THEN "/" \o path0 ELSE path0
    IN  TrimSuffix(path1, "/")

\* The entry point lookup that takes the first listed entry point the mapping knows.
FirstEntryPoint_FirstKnown(router, entryPoints) ==
    LET known == SelectSeq(router.EntryPoints, LAMBDA e : e \in DOMAIN entryPoints)
    IN  IF known = <<>> THEN <<>> ELSE <<entryPoints[known[1]]>>

\* The entry point ReconstructURL resolves, as <<entryPoint>>: the first one the
\* record lists; <<>> when it lists none or the mapping does not know it.
FirstEntryPoint(router, entryPoints) ==
    IF Len(router.EntryPoints) = 0 THEN <<>>
    ELSE IF router.EntryPoints[1] \notin DOMAIN entryPoints THEN <<>>
    ELSE <<entryPoints[router.EntryPoints[1]]>>

\* The port test that takes 80 and 443 for defaults of either protocol.
IsDefaultPort_EitherProtocol(protocol, port) == port \in {"80", "443"}

\* "Omit the port if it's the default for the protocol."
IsDefaultPort(protocol, port) ==
    (protocol = "http" /\ port = "80") \/ (protocol = "https" /\ port = "443")

ReconstructURL(router, entryPoints) ==
    LET hostMatches == hostRegex(router.Rule)
        found == FirstEntryPoint(router, entryPoints)
    IN
    IF hostMatches = <<>> THEN ""
    ELSE IF found = <<>> THEN ""
    ELSE LET hostname   == hostMatches[1]
             path       == CleanPath(router.Rule)
             entryPoint == found[1]
             protocol   == DetermineProtocol(router, entryPoint)
             port       == TrimPrefix(entryPoint.Address, ":")
         IN  IF IsDefaultPort(protocol, port)
             THEN protocol \o "://" \o hostname \o path
             ELSE protocol \o "://" \o hostname \o path \o ":" \o port

-----------------------------------------------------------------------------
(* The two remote catalog caches: cache.go *)

\* Time is counted in hours. The zero time.Time is ZeroTime; the process runs
\* long after it, so a cache that was never refreshed is older than any TTL.
ZeroTime == 0
selfhstCacheTTL == 1
selfhstAppsCacheTTL == 24
Boot == ZeroTime + selfhstAppsCacheTTL + 1

\* models.SelfHstIcon and models.SelfHstApp, with the fields the core reads.
Icon(reference, svg) == [Reference |-> reference, SVG |-> svg]
App(reference, tags) == [Reference |-> reference, Tags |-> tags]

\* The less function both refreshes hand to sort.Slice: shorter reference first,
\* then the lexicographically smaller.
RefLess(a, b) ==
    IF Len(a.Reference) # Len(b.Reference)
    THEN Len(a.Reference) < Len(b.Reference)
    ELSE StrLess(a.Reference, b.Reference)

RECURSIVE InsertSorted(_, _)
InsertSorted(x, list) ==
    IF list = <<>> THEN <<x>>
    ELSE IF RefLess(x, Head(list)) THEN <<x>> \o list
    ELSE <<Head(list)>> \o InsertSorted(x, Tail(list))

\* The decoded list published as it came.
SortSlice_AsFetched(list) == list

\* sort.Slice(list, RefLess) on a list of entries with distinct references.
RECURSIVE SortSlice(_)
SortSlice(list) ==
    IF list = <<>> THEN <<>> ELSE InsertSorted(Head(list), SortSlice(Tail(list)))

\* The freshness test that still takes a cache for fresh at the age of its TTL.
Fresh_UpToTTL(data, t, ttl) == (now - t) <= ttl /\ Len(data) > 0

\* time.Since(t) < ttl && len(data) > 0
Fresh(data, t, ttl) == (now - t) < ttl /\ Len(data) > 0

\* One call of a catalog getter on the cache (data, t) with time-to-live ttl, when
\* the network answers the refresh with `fetch`: what the caller is handed
\* (ret, err), what the cache holds afterwards (data, time), and whether the
\* network was asked.
\* The getter that answers a failed refresh with the stale data it still holds.
GetCatalog_ServeStale(data, t, ttl, fetch) ==
    IF Fresh(data, t, ttl)
    THEN [ret |-> data, err |-> FALSE, data |-> data, time |-> t, fetched |-> FALSE]
    ELSE IF fetch.kind # "ok"
    THEN [ret |-> data, err |-> data = <<>>, data |-> data, time |-> t, fetched |-> TRUE]
    ELSE LET sorted == SortSlice(fetch.body)
         IN  [ret |-> sorted, err |-> FALSE, data |-> sorted, time |-> now, fetched |-> TRUE]

GetCatalog(data, t, ttl, fetch) ==
    IF Fresh(data, t, ttl)
    THEN [ret |-> data, err |-> FALSE, data |-> data, time |-> t, fetched |-> FALSE]
    ELSE IF fetch.kind # "ok"
    THEN [ret |-> <<>>, err |-> TRUE, data |-> data, time |-> t, fetched |-> TRUE]
    ELSE LET sorted == SortSlice(fetch.body)
         IN  [ret |-> sorted, err |-> FALSE, data |-> sorted, time |-> now, fetched |-> TRUE]

\* The icon getter that publishes the undecoded (empty) list before it fails.
GetSelfHstIconNames_PublishFirst(fetch) ==
    LET r == GetCatalog(selfhstIcons, selfhstCacheTime, selfhstCacheTTL, fetch)
    IN  IF r.err THEN [r EXCEPT !.data = <<>>, !.time = now] ELSE r

GetSelfHstIconNames(fetch) == GetCatalog(selfhstIcons, selfhstCacheTime, selfhstCacheTTL, fetch)

GetSelfHstAppTags(fetch) == GetCatalog(selfhstApps, selfhstAppsCacheTime, selfhstAppsCacheTTL, fetch)

\* The record of a catalog call: which getter, the data cached when it was made,
\* whether it went to the network and with what answer, and what it returned.
CallRecord(fn, cached, fetch, r) ==
    [fn |-> fn, cached |-> cached, fetched |-> r.fetched,
     answer |-> IF r.fetched THEN fetch.kind ELSE "none",
     err |-> r.err, ret |-> r.ret]

NoCall == [fn |-> "none", cached |-> <<>>, fetched |-> FALSE, answer |-> "none",
           err |-> FALSE, ret |-> <<>>]

\* What the network can answer a refresh with: a connection error, a body that is
\* not the expected JSON, or a decoded listing (in the order of the document).
IconIndexes ==
    { << Icon("plex-meta-manager", "No"), Icon("sonarr", "No"), Icon("plex", "Yes") >>,
      << Icon("radarr", "Yes"), Icon("plex", "No") >> }

AppIndexes ==
    { << App("sonarr", <<"media", "arr">>), App("plex", <<"media">>) >>,
      << >> }

Failures == { [kind |-> "neterr"], [kind |-> "decodeerr"] }

IconFetches == Failures \cup { [kind |-> "ok", body |-> b] : b \in IconIndexes }
AppFetches  == Failures \cup { [kind |-> "ok", body |-> b] : b \in AppIndexes }

\* The clock. Hours pass one at a time, at most MaxHours of them within a day
\* of the model, and days pass whole, at most MaxDays of them.
MaxHours == 1
MaxDays == 1

TickHour ==
    /\ (now - Boot) % selfhstAppsCacheTTL < MaxHours
    /\ now' = now + 1

TickDay ==
    /\ (now - Boot) \div selfhstAppsCacheTTL < MaxDays
    /\ now' = now + selfhstAppsCacheTTL

\* A caller outside the worker (the search-engine icon lookup of the status
\* handler, a later request) asks for the icon catalog.
CallIconNames(fetch) ==
    LET r == GetSelfHstIconNames(fetch) IN
    /\ selfhstIcons' = r.data
    /\ selfhstCacheTime' = r.time
    /\ lastCall' = CallRecord("icons", selfhstIcons, fetch, r)
    /\ UNCHANGED <<selfhstApps, selfhstAppsCacheTime>>

CallAppTags(fetch) ==
    LET r == GetSelfHstAppTags(fetch) IN
    /\ selfhstApps' = r.data
    /\ selfhstAppsCacheTime' = r.time
    /\ lastCall' = CallRecord("apps", selfhstApps, fetch, r)
    /\ UNCHANGED <<selfhstIcons, selfhstCacheTime>>

-----------------------------------------------------------------------------
(* The icon and tag resolver: icons.go, and FindUserIcon of cache.go *)

\* fuzzy.Match with the fold transformer, as fuzzy.FindFold applies it: every
\* character of source occurs in target, in order, case folded.
RECURSIVE IsSubsequence(_, _)
IsSubsequence(source, target) ==
    IF source = "" THEN TRUE
    ELSE IF target = "" THEN FALSE
    ELSE IF Char(source, 1) = Char(target, 1)
         THEN IsSubsequence(SubSeq(source, 2, Len(source)), SubSeq(target, 2, Len(target)))
         ELSE IsSubsequence(source, SubSeq(target, 2, Len(target)))

FuzzyMatchFold(source, target) ==
    /\ Len(target) >= Len(source)
    /\ IsSubsequence(ToLower(source), ToLower(target))

\* fuzzy.FindFold(source, targets): the targets that match, in the order of targets.
FindFold(source, targets) == SelectSeq(targets, LAMBDA t : FuzzyMatchFold(source, t))

References(list) == [i \in 1..Len(list) |-> list[i].Reference]

\* The first entry of list whose reference is ref, as <<entry>>; <<>> without one.
Lookup(list, ref) == LET hit == SelectSeq(list, LAMBDA x : x.Reference = ref)
                     IN  IF hit = <<>> THEN <<>> ELSE <<hit[1]>>

\* ResolveSelfHstReference: the reference it returns and the catalog call it made.
ResolveSelfHstReference(serviceName, fetch) ==
    LET r == GetSelfHstIconNames(fetch)
        matches == FindFold(serviceName, References(r.ret))
    IN  [call |-> r,
         reference |-> IF r.err THEN "" ELSE IF Len(matches) > 0 THEN matches[1] ELSE ""]

\* GetSelfHstIconURL for a non-empty reference: the URL and the catalog call.
GetSelfHstIconURL(reference, fetch) ==
    LET r == GetSelfHstIconNames(fetch)
        hit == Lookup(r.ret, reference)
    IN  [call |-> r,
         url |-> IF r.err \/ hit = <<>> THEN ""
                 ELSE IF hit[1].SVG = "Yes"
                 THEN configuration.SelfhstIconURL \o "svg/" \o hit[1].Reference \o ".svg"
                 ELSE configuration.SelfhstIconURL \o "png/" \o hit[1].Reference \o ".png"]

\* GetServiceTags for a non-empty reference: the tags and the catalog call.
GetServiceTags(reference, fetch) ==
    LET r == GetSelfHstAppTags(fetch)
        hit == Lookup(r.ret, reference)
    IN  [call |-> r,
         tags |-> IF r.err \/ hit = <<>> THEN <<>> ELSE hit[1].Tags]

\* filepath.Ext: the suffix of the last path element that begins at its last dot.
RECURSIVE ExtFrom(_, _)
ExtFrom(path, i) ==
    IF i < 1 \/ Char(path, i) = "/" THEN ""
    ELSE IF Char(path, i) = "." THEN SubSeq(path, i, Len(path))
    ELSE ExtFrom(path, i - 1)

Ext(path) == ExtFrom(path, Len(path))

\* config.GetIconOverride, GetDisplayNameOverride, GetGroupOverride
GetIconOverride(routerName) ==
    IF routerName \in DOMAIN configuration.Overrides
    THEN configuration.Overrides[routerName].Icon ELSE ""

GetDisplayNameOverride(routerName) ==
    IF routerName \in DOMAIN configuration.Overrides
    THEN configuration.Overrides[routerName].DisplayName ELSE ""

GetGroupOverride(routerName) ==
    IF routerName \in DOMAIN configuration.Overrides
    THEN configuration.Overrides[routerName].Group ELSE ""

\* Tier 1 without the lower-casing of the file name.
OverrideIcon_KeepCase(iconValue) ==
    IF HasPrefix(iconValue, "http://") \/ HasPrefix(iconValue, "https://") THEN iconValue
    ELSE IF Ext(iconValue) \in {".png", ".svg", ".webp"}
    THEN configuration.SelfhstIconURL \o TrimPrefix(Ext(iconValue), ".") \o "/" \o iconValue
    ELSE configuration.SelfhstIconURL \o "png/" \o iconValue \o ".png"

\* Tier 1 of FindIcon: the icon a configured override stands for.
OverrideIcon(iconValue) ==
    IF HasPrefix(iconValue, "http://") \/ HasPrefix(iconValue, "https://") THEN iconValue
    ELSE IF Ext(iconValue) \in {".png", ".svg", ".webp"}
    THEN configuration.SelfhstIconURL \o TrimPrefix(Ext(iconValue), ".") \o "/" \o ToLower(iconValue)
    ELSE configuration.SelfhstIconURL \o "png/" \o ToLower(iconValue) \o ".png"

\* FindUserIcon: the path of the first name of sortedUserIconNames that matches.
FindUserIcon(name) ==
    LET matches == FindFold(name, userIcons.sorted)
    IN  IF userIcons.paths = <<>> THEN ""
        ELSE IF Len(matches) > 0 THEN userIcons.paths[matches[1]]
        ELSE ""

\* url.Parse, as far as FindFavicon reads it: the scheme and the host of a URL.
URLScheme(u) == LET i == IndexFrom(u, ":", 1) IN IF i = 0 THEN "" ELSE SubSeq(u, 1, i - 1)

URLHost(u) ==
    LET i == IndexFrom(u, ":", 1)
        rest == IF i = 0 \/ SubSeq(u, i, i + 2) # "://" THEN "" ELSE SubSeq(u, i + 3, Len(u))
        j == IndexFrom(rest, "/", 1)
    IN  IF j = 0 THEN rest ELSE SubSeq(rest, 1, j - 1)

FaviconURL(serviceURL) == URLScheme(serviceURL) \o "://" \o URLHost(serviceURL) \o "/favicon.ico"

\* The absolute URL of the icon link the service's page names, when it names one.
LinkedIconURL(serviceURL) ==
    URLScheme(serviceURL) \o "://" \o URLHost(serviceURL) \o "/apple-touch-icon.png"

Head_(url) == [method |-> "HEAD", url |-> url]
Get_(url)  == [method |-> "GET", url |-> url]

\* What the service's site answers to the probes of tiers 4 and 5: whether
\* /favicon.ico is a valid image, and how the page fetch goes: it fails, the page
\* names no icon, names one that is no valid image, or names a valid one.
SiteAnswers == [favicon : BOOLEAN, page : {"fail", "badimage", "image"}]

\* FindFavicon: the icon it returns and the probe it issues.
FindFavicon(serviceURL, net) ==
    [icon |-> IF net.favicon THEN FaviconURL(serviceURL) ELSE "",
     probes |-> {Head_(FaviconURL(serviceURL))}]

\* FindHTMLIcon: the icon it returns and the probes it issues.
FindHTMLIcon(serviceURL, net) ==
    [icon |-> IF net.page = "image" THEN LinkedIconURL(serviceURL) ELSE "",
     probes |-> {Get_(serviceURL)} \cup
                (IF net.page \in {"badimage", "image"}
                 THEN {Head_(LinkedIconURL(serviceURL))} ELSE {})]

\* A catalog call that was not made.
NotCalled == [ret |-> <<>>, err |-> FALSE, data |-> selfhstIcons, time |-> selfhstCacheTime,
              fetched |-> FALSE]

\* FindIcon: the icon it returns, the tier that returned it (0 when none did), the
\* catalog call of tier 3 with its result, and the probes issued on the way.
FindIcon(routerName, serviceURL, displayNameReplaced, reference, fetch, net) ==
    LET iconValue == GetIconOverride(routerName)
        userIcon  == FindUserIcon(displayNameReplaced)
        catalog   == GetSelfHstIconURL(reference, fetch)
        favicon   == FindFavicon(serviceURL, net)
        html      == FindHTMLIcon(serviceURL, net)
    IN  IF iconValue # ""
        THEN [icon |-> OverrideIcon(iconValue), tier |-> 1, call |-> NotCalled,
              catalogURL |-> "", probes |-> {}]
        ELSE IF userIcon # ""
        THEN [icon |-> userIcon, tier |-> 2, call |-> NotCalled,
              catalogURL |-> "", probes |-> {}]
        ELSE IF reference # ""
        THEN [icon |-> catalog.url, tier |-> 3, call |-> catalog.call,
              catalogURL |-> catalog.url, probes |-> {}]
        ELSE IF favicon.icon # ""
        THEN [icon |-> favicon.icon, tier |-> 4, call |-> NotCalled,
              catalogURL |-> "", probes |-> favicon.probes]
        ELSE IF html.icon # ""
        THEN [icon |-> html.icon, tier |-> 5, call |-> NotCalled,
              catalogURL |-> "", probes |-> favicon.probes \cup html.probes]
        ELSE [icon |-> "", tier |-> 0, call |-> NotCalled,
              catalogURL |-> "", probes |-> favicon.probes \cup html.probes]

\* FindTags: the tags and the catalog call (none for an empty reference).
FindTags(reference, fetch) ==
    IF reference # "" THEN GetServiceTags(reference, fetch)
    ELSE [call |-> [ret |-> <<>>, err |-> FALSE, data |-> selfhstApps,
                    time |-> selfhstAppsCacheTime, fetched |-> FALSE],
          tags |-> <<>>]

-----------------------------------------------------------------------------
(* The router processor: processor.go *)

\* filepath.Match reports ErrBadPattern for a pattern with an unclosed class.
BadPattern(pattern) ==
    LET i == IndexFrom(pattern, "[", 1)
    IN  i # 0 /\ IndexFrom(pattern, "]", i + 1) = 0

\* filepath.Match for patterns of literals, "*" and "?": "*" stands for any run
\* of characters other than the path separator, "?" for one of them.
RECURSIVE Match(_, _)
Match(pattern, name) ==
    IF pattern = "" THEN name = ""
    ELSE LET c  == Char(pattern, 1)
             ps == SubSeq(pattern, 2, Len(pattern))
             ns == SubSeq(name, 2, Len(name))
         IN  IF c = "*"
             THEN Match(ps, name) \/ (name # "" /\ Char(name, 1) # "/" /\ Match(pattern, ns))
             ELSE IF c = "?"
             THEN name # "" /\ Char(name, 1) # "/" /\ Match(ps, ns)
             ELSE name # "" /\ Char(name, 1) = c /\ Match(ps, ns)

IsExcluded(routerName) ==
    \E i \in 1..Len(configuration.ExcludeRouters) :
        /\ ~BadPattern(configuration.ExcludeRouters[i])
        /\ Match(configuration.ExcludeRouters[i], routerName)

IsEntrypointExcluded(entryPoints) ==
    \E e \in 1..Len(entryPoints) :
        \E i \in 1..Len(configuration.ExcludeEntrypoints) :
            /\ ~BadPattern(configuration.ExcludeEntrypoints[i])
            /\ Match(configuration.ExcludeEntrypoints[i], entryPoints[e])

\* The router name ProcessRouter works with: the part before "@", without a
\* leading "<first entry point>-" (compared case-insensitively).
RouterName(router) ==
    LET base == SplitFirst(router.Name, "@")
        prefix == router.EntryPoints[1] \o "-"
    IN  IF /\ Len(router.EntryPoints) > 0
           /\ Len(base) > Len(prefix)
           /\ HasPrefix(ToLower(base), ToLower(prefix))
        THEN SubSeq(base, Len(prefix) + 1, Len(base))
        ELSE base

\* The URL ProcessRouter compares the service URL with to spot the Traefik API.
TraefikAPIURL ==
    (IF HasPrefix(configuration.APIHost, "http") THEN configuration.APIHost
     ELSE "http://" \o configuration.APIHost) \o "/api"

\* The checks of ProcessRouter that drop a record, in its order: "" when the
\* record passes them all, otherwise the reason it is dropped.
DropReason(router, entryPoints) ==
    LET routerName == RouterName(router)
        serviceURL == ReconstructURL(router, entryPoints)
    IN  IF serviceURL = "" THEN "no-url"
        ELSE IF IsExcluded(routerName) THEN "router-excluded"
        ELSE IF IsEntrypointExcluded(router.EntryPoints) THEN "entrypoint-excluded"
        ELSE IF configuration.APIHost # "" /\ serviceURL = TraefikAPIURL THEN "traefik-api"
        ELSE ""

DisplayName(routerName) ==
    IF GetDisplayNameOverride(routerName) # "" THEN GetDisplayNameOverride(routerName)
    ELSE ReplaceAll(routerName, "-", " ")

\* models.Service
Service(name, url, priority, icon, tags, group) ==
    [Name |-> name, URL |-> url, Priority |-> priority, Icon |-> icon, Tags |-> tags,
     Group |-> group]

NoService == Service("", "", 0, "", <<>>, "")

NoAnswers == [favicon |-> FALSE, page |-> "fail"]

\* A worker that has not been handed a record.
IdleWorker ==
    [pc |-> "idle", router |-> Router("", "", <<>>, NilTLS), routerName |-> "",
     serviceURL |-> "", drop |-> "", displayName |-> "", reference |-> "", icon |-> "",
     tier |-> 0, catalogURL |-> "", catalogErr |-> FALSE, net |-> NoAnswers,
     ok |-> FALSE, service |-> NoService]

\* The entry points of the poll, by name.
EntryPointsMap ==
    ("web" :> EntryPoint("web", ":80", NilTLS)) @@
    ("websecure" :> EntryPoint("websecure", ":443", "{}")) @@
    ("alt" :> EntryPoint("alt", ":8080", "null")) @@
    ("internal" :> EntryPoint("internal", ":9000", NilTLS)) @@
    ("altsecure" :> EntryPoint("altsecure", ":8443", "{\"options\":\"default\"}"))

\* ProcessRouter, up to its first network call: the worker derives the router
\* name and the URL and drops the record, or goes on to resolve its reference.
ProcessRouterBegin(router) ==
    /\ worker.pc = "idle"
    /\ LET routerName == RouterName(router)
           serviceURL == ReconstructURL(router, EntryPointsMap)
           drop == DropReason(router, EntryPointsMap)
       IN  worker' = [IdleWorker EXCEPT
                        !.pc = IF drop = "" THEN "resolve" ELSE "done",
                        !.router = router,
                        !.routerName = routerName,
                        !.serviceURL = serviceURL,
                        !.drop = drop,
                        !.displayName = IF drop = "" THEN DisplayName(routerName) ELSE ""]
    /\ probes' = {}
    /\ UNCHANGED <<now, selfhstIcons, selfhstCacheTime, selfhstApps, selfhstAppsCacheTime,
                   lastCall, configuration, userIcons, parse, grouping, manual, request, refresh>>

displayNameReplaced == ReplaceAll(worker.displayName, " ", "-")

\* ... reference := icons.ResolveSelfHstReference(displayNameReplaced)
ProcessRouterResolve(fetch) ==
    /\ worker.pc = "resolve"
    /\ LET res == ResolveSelfHstReference(displayNameReplaced, fetch) IN
         /\ selfhstIcons' = res.call.data
         /\ selfhstCacheTime' = res.call.time
         /\ worker' = [worker EXCEPT !.pc = "icon", !.reference = res.reference]
    /\ UNCHANGED <<now, selfhstApps, selfhstAppsCacheTime, lastCall, configuration,
                   userIcons, probes, parse, grouping, manual, request, refresh>>

\* ... iconURL := icons.FindIcon(routerName, serviceURL, displayNameReplaced, reference)
ProcessRouterFindIcon(fetch, net) ==
    /\ worker.pc = "icon"
    /\ LET res == FindIcon(worker.routerName, worker.serviceURL, displayNameReplaced,
                           worker.reference, fetch, net) IN
         /\ selfhstIcons' = res.call.data
         /\ selfhstCacheTime' = res.call.time
         /\ probes' = res.probes
         /\ worker' = [worker EXCEPT !.pc = "tags", !.icon = res.icon, !.tier = res.tier,
                                     !.catalogURL = res.catalogURL,
                                     !.catalogErr = res.call.err, !.net = net]
    /\ UNCHANGED <<now, selfhstApps, selfhstAppsCacheTime, lastCall, configuration,
                   userIcons, parse, grouping, manual, request, refresh>>

\* ... tags := icons.FindTags(routerName, reference), the group override, and the
\* Service the worker returns.
ProcessRouterFindTags(fetch) ==
    /\ worker.pc = "tags"
    /\ LET res == FindTags(worker.reference, fetch) IN
         /\ selfhstApps' = res.call.data
         /\ selfhstAppsCacheTime' = res.call.time
         /\ worker' = [worker EXCEPT
                         !.pc = "done", !.ok = TRUE,
                         !.service = Service(worker.displayName, worker.serviceURL,
                                             worker.router.Priority, worker.icon, res.tags,
                                             GetGroupOverride(worker.routerName))]
    /\ UNCHANGED <<now, selfhstIcons, selfhstCacheTime, lastCall, configuration,
                   userIcons, probes, parse, grouping, manual, request, refresh>>

\* The worker has delivered its result; the next record gets a worker of its own.
ProcessRouterReturn ==
    /\ worker.pc = "done"
    /\ worker' = IdleWorker
    /\ probes' = {}
    /\ UNCHANGED <<now, selfhstIcons, selfhstCacheTime, selfhstApps, selfhstAppsCacheTime,
                   lastCall, configuration, userIcons, parse, grouping, manual, request, refresh>>

-----------------------------------------------------------------------------
(* The rule parser applied to one routing record: inputs and specification *)

Rules ==
    { "Host('example.com')",
      "Host('traefik') && PathPrefix('/api')",
      "Host( 'a.io' ) && PathPrefix( 'api/' )",
      "Host('a.io') && PathPrefix('/api//')",
      "Host('a.io') && PathPrefix('//')",
      "Host('a.io') && PathPrefix('/')",
      "PathPrefix('x/y') && Host('a.io')",
      "Host('a.io') || Host('b.io')",
      "Host('a.io', 'b.io')",
      "HostRegexp('.+')",
      "PathPrefix('/api')" }

EntryPointLists == { <<>>, <<"web">>, <<"missing">>, <<"web", "missing">>, <<"missing", "web">> }

TLSMarkers == { NilTLS, "", "null", "{}", "{\"certResolver\":\"le\"}" }

Addresses == { ":80", ":443", ":8080", ":8443" }

ParseInputs ==
    { [router |-> Router("svc@docker", rule, eps, tls),
       entryPoints |-> ("web" :> EntryPoint("web", addr, eptls))] :
         rule \in Rules, eps \in EntryPointLists, tls \in TLSMarkers,
         addr \in Addresses, eptls \in TLSMarkers }

\* No record is being parsed.
NoParse == [pc |-> "none"]

\* What one call of ReconstructURL computes: the URL it returns and, on the way,
\* the cleaned path and the protocol (both "" when the call returns early).
ParseResult(router, entryPoints) ==
    LET url == ReconstructURL(router, entryPoints) IN
    [pc          |-> "out",
     router      |-> router,
     entryPoints |-> entryPoints,
     url         |-> url,
     path        |-> IF url = "" THEN "" ELSE CleanPath(router.Rule),
     protocol    |-> IF url = "" THEN ""
                     ELSE DetermineProtocol(router, FirstEntryPoint(router, entryPoints)[1])]

\* The caches, the configuration and the worker as they stand before any request.
NoConfiguration == [APIHost |-> "", SelfhstIconURL |-> "", ExcludeRouters |-> <<>>,
                    ExcludeEntrypoints |-> <<>>, Overrides |-> <<>>]

NoUserIcons == [paths |-> <<>>, sorted |-> <<>>]

\* No grouping call, no manual-service call, no request and no caller in a getter.
NoGrouping == [pc |-> "idle"]
NoManual == [pc |-> "idle"]
NoRequest == [pc |-> "idle"]
NoRefresh == [pc |-> "idle"]

NoHandler ==
    /\ grouping = NoGrouping
    /\ manual = NoManual
    /\ request = NoRequest
    /\ refresh = NoRefresh

InitURL ==
    /\ now = Boot
    /\ selfhstIcons = <<>> /\ selfhstCacheTime = ZeroTime
    /\ selfhstApps = <<>> /\ selfhstAppsCacheTime = ZeroTime
    /\ lastCall = NoCall
    /\ configuration = NoConfiguration
    /\ worker = IdleWorker
    /\ userIcons = NoUserIcons
    /\ probes = {}
    /\ \E in \in ParseInputs :
         parse = [pc |-> "in", router |-> in.router, entryPoints |-> in.entryPoints]
    /\ NoHandler

ApplyReconstructURL ==
    /\ parse.pc = "in"
    /\ parse' = ParseResult(parse.router, parse.entryPoints)
    /\ UNCHANGED <<now, selfhstIcons, selfhstCacheTime, selfhstApps, selfhstAppsCacheTime,
                   lastCall, configuration, worker, userIcons, probes, grouping, manual, request, refresh>>

NextURL == ApplyReconstructURL

SpecURL == InitURL /\ [][NextURL]_vars

-----------------------------------------------------------------------------
(* The catalog caches under calls and the passing of time: SpecCache *)

ColdCaches ==
    /\ now = Boot
    /\ selfhstIcons = <<>> /\ selfhstCacheTime = ZeroTime
    /\ selfhstApps = <<>> /\ selfhstAppsCacheTime = ZeroTime
    /\ lastCall = NoCall

\* The answers worth telling apart: any one, if the call will not ask the network.
Answers(fetches, data, t, ttl) ==
    IF Fresh(data, t, ttl) THEN {CHOOSE f \in Failures : TRUE} ELSE fetches

InitCache ==
    /\ ColdCaches
    /\ configuration = NoConfiguration
    /\ worker = IdleWorker
    /\ userIcons = NoUserIcons
    /\ probes = {}
    /\ parse = NoParse
    /\ NoHandler

NextCache ==
    \/ TickHour /\ UNCHANGED <<selfhstIcons, selfhstCacheTime, selfhstApps,
                               selfhstAppsCacheTime, lastCall, configuration, worker,
                               userIcons, probes, parse, grouping, manual, request, refresh>>
    \/ TickDay /\ UNCHANGED <<selfhstIcons, selfhstCacheTime, selfhstApps,
                              selfhstAppsCacheTime, lastCall, configuration, worker,
                              userIcons, probes, parse, grouping, manual, request, refresh>>
    \/ \E fetch \in Answers(IconFetches, selfhstIcons, selfhstCacheTime, selfhstCacheTTL) :
          CallIconNames(fetch) /\ UNCHANGED <<now, configuration, worker, userIcons, probes, parse, grouping, manual, request, refresh>>
    \/ \E fetch \in Answers(AppFetches, selfhstApps, selfhstAppsCacheTime, selfhstAppsCacheTTL) :
          CallAppTags(fetch) /\ UNCHANGED <<now, configuration, worker, userIcons, probes, parse, grouping, manual, request, refresh>>

SpecCache == InitCache /\ [][NextCache]_vars

-----------------------------------------------------------------------------
(* One worker of the services handler, record after record: SpecRouter *)

DefaultIconURL == "https://cdn.jsdelivr.net/gh/selfhst/icons/"

Override(displayName, icon, group) == [DisplayName |-> displayName, Icon |-> icon, Group |-> group]

\* serviceOverrideMap
Overrides ==
    ("X" :> Override("", "foo.svg", "")) @@
    ("photos" :> Override("My Photos", "Photos.webp", "media")) @@
    ("Y" :> Override("", "https://img.example/y.svg", "")) @@
    ("Z" :> Override("", "custom", "")) @@
    ("wiki" :> Override("Plex", "", ""))

Configuration(apiHost, excludeRouters, excludeEntrypoints) ==
    [APIHost |-> apiHost, SelfhstIconURL |-> DefaultIconURL,
     ExcludeRouters |-> excludeRouters, ExcludeEntrypoints |-> excludeEntrypoints,
     Overrides |-> Overrides]

\* The user icons ScanUserIcons found, with their names sorted as it sorts them.
UserIcons(paths) ==
    [paths |-> paths,
     sorted |-> References(SortSlice(
                   [i \in 1..Cardinality(DOMAIN paths) |->
                      [Reference |-> CHOOSE n \in DOMAIN paths :
                         Cardinality({m \in DOMAIN paths : RefLess([Reference |-> m], [Reference |-> n])}) = i - 1]]))]

\* The deployments of the model: a configuration and the icons directory.
Deployments ==
    { [configuration |-> Configuration("http://traefik", <<"traefik-api", "api*">>, <<>>),
       userIcons |-> NoUserIcons],
      [configuration |-> Configuration("http://traefik:8080", <<"[bad", "web-api">>, <<>>),
       userIcons |-> UserIcons(("sonarr" :> "/icons/sonarr.png") @@ ("x-ray" :> "/icons/X-Ray.svg"))],
      [configuration |-> Configuration("https://traefik:8443", <<>>, <<"int*">>),
       userIcons |-> UserIcons(("sonarr" :> "/icons/sonarr.png") @@ ("x-ray" :> "/icons/X-Ray.svg"))] }

APIRule == "Host('traefik') && PathPrefix('/api')"

\* The routing records of the model.
Routers ==
    { Router("traefik-api@docker", APIRule, <<"web">>, NilTLS),
      Router("dashboard@internal", APIRule, <<"web">>, NilTLS),
      Router("dashboard@internal", APIRule, <<"alt">>, NilTLS),
      Router("dashboard@internal", APIRule, <<"altsecure">>, NilTLS),
      Router("api-gateway@file", "Host('gw.example.com')", <<"websecure">>, NilTLS),
      Router("web-api@docker", "Host('api.example.com')", <<"web">>, NilTLS),
      Router("web-api@docker", "Host('api.example.com')", <<"websecure", "web">>, NilTLS),
      Router("plex@docker", "Host('plex.example.com')", <<"web">>, "{\"certResolver\":\"le\"}"),
      Router("X@docker", "Host('x.example.com')", <<"web">>, NilTLS),
      Router("photos@docker", "Host('photos.example.com')", <<"websecure">>, NilTLS),
      Router("Y@file", "Host('y.example.com')", <<"web">>, NilTLS),
      Router("Z@file", "Host('z.example.com')", <<"web">>, NilTLS),
      Router("wiki@docker", "Host('wiki.example.com')", <<"web">>, NilTLS),
      Router("sonarr@docker", "Host('sonarr.example.com') && PathPrefix('/app/')", <<"alt">>, NilTLS),
      Router("WEB-Radarr@docker", "Host('radarr.example.com')", <<"web">>, NilTLS),
      Router("unknown-svc@docker", "Host('u.example.com')", <<"internal">>, NilTLS),
      Router("unknown-svc@docker", "Host('u.example.com')", <<"web">>, NilTLS),
      Router("nohost@docker", "PathPrefix('/x')", <<"web">>, NilTLS),
      Router("noep@docker", "Host('a.io')", <<>>, NilTLS),
      Router("badep@docker", "Host('a.io')", <<"missing", "web">>, NilTLS) }

\* The answers of the site worth telling apart: any one, if tier 1 or tier 2 has
\* an icon and the site is therefore not consulted.
ProbedAnswers ==
    IF worker.pc = "icon" /\ GetIconOverride(worker.routerName) = ""
                          /\ FindUserIcon(displayNameReplaced) = ""
    THEN SiteAnswers ELSE {NoAnswers}

InitRouter ==
    /\ ColdCaches
    /\ \E d \in Deployments :
         /\ configuration = d.configuration
         /\ userIcons = d.userIcons
    /\ worker = IdleWorker
    /\ probes = {}
    /\ parse = NoParse
    /\ NoHandler

NextRouter ==
    \/ TickHour /\ UNCHANGED <<selfhstIcons, selfhstCacheTime, selfhstApps,
                               selfhstAppsCacheTime, lastCall, configuration, worker,
                               userIcons, probes, parse, grouping, manual, request, refresh>>
    \/ \E router \in Routers : ProcessRouterBegin(router)
    \/ \E fetch \in Answers(IconFetches, selfhstIcons, selfhstCacheTime, selfhstCacheTTL) :
          ProcessRouterResolve(fetch)
    \/ \E fetch \in Answers(IconFetches, selfhstIcons, selfhstCacheTime, selfhstCacheTTL) :
          \E net \in ProbedAnswers : ProcessRouterFindIcon(fetch, net)
    \/ \E fetch \in Answers(AppFetches, selfhstApps, selfhstAppsCacheTime, selfhstAppsCacheTTL) :
          ProcessRouterFindTags(fetch)
    \/ ProcessRouterReturn

SpecRouter == InitRouter /\ [][NextRouter]_vars

-----------------------------------------------------------------------------
(* Claims about the rule parser, checked under SpecURL *)

\* A rule whose PathPrefix capture exists.
HasPathCapture(rule) == pathRegex(rule) # <<>>

\* C6: for every rule with a PathPrefix capture, the normalized path that
\* ReconstructURL places in the URL never ends with "/", and when it is non-empty
\* it starts with "/", whatever number of leading or trailing slashes the capture has.
C6_PathNormalized ==
    (parse.pc = "out" /\ parse.url # "" /\ HasPathCapture(parse.router.Rule)) =>
        /\ ~HasSuffix(parse.path, "/")
        /\ (parse.path # "" => HasPrefix(parse.path, "/"))

\* C25 as claimed: every URL ReconstructURL returns reads
\* protocol://host[:port][path]: a port that is not the protocol's default
\* follows the hostname directly and precedes the path.
C25_PortBeforePath ==
    (parse.pc = "out" /\ parse.url # "") =>
        LET hostname == hostRegex(parse.router.Rule)[1]
            port == TrimPrefix(FirstEntryPoint(parse.router, parse.entryPoints)[1].Address, ":")
        IN  parse.url = parse.protocol \o "://" \o hostname
                        \o (IF IsDefaultPort(parse.protocol, port) THEN "" ELSE ":" \o port)
                        \o parse.path

\* A TLS marker that is non-empty, not "null" and not "{}".
C8_Marker(tls) == tls \notin {NilTLS, "", "null", "{}"}

\* C8: DetermineProtocol yields https when the routing record carries a TLS marker,
\* whatever the entry point says; otherwise https when the resolved entry point
\* carries one; and http only when neither does.
C8_ProtocolPrecedence ==
    (parse.pc = "out" /\ parse.url # "") =>
        LET r == C8_Marker(parse.router.TLS)
            e == C8_Marker(parse.entryPoints[parse.router.EntryPoints[1]].TLS)
        IN  /\ r => parse.protocol = "https"
            /\ (~r /\ e) => parse.protocol = "https"
            /\ (parse.protocol = "http") <=> (~r /\ ~e)
            /\ HasPrefix(parse.url, parse.protocol \o "://")

\* C8 witness: a record without a TLS marker resolved to https by its entry point.
C8_Witness ==
    /\ parse.pc = "out" /\ parse.url # ""
    /\ ~C8_Marker(parse.router.TLS)
    /\ parse.router.TLS = "{}"
    /\ C8_Marker(parse.entryPoints[parse.router.EntryPoints[1]].TLS)
    /\ parse.protocol = "https"

\* The entry point's port: its bind address without the leading colon.
C9_Port(p) == LET a == p.entryPoints[p.router.EntryPoints[1]].Address
              IN  IF Char(a, 1) = ":" THEN SubSeq(a, 2, Len(a)) ELSE a

\* The URL carries no port: nothing after the "://" holds a colon.
C9_NoPort(p) == IndexFrom(p.url, ":", Len(p.protocol) + 2) = 0

\* C9: ReconstructURL omits the port if and only if the entry point's port equals
\* the default of the resolved protocol (80 for http, 443 for https), otherwise the
\* URL carries the port: Host('example.com') with TLS on :443 gives
\* https://example.com and on :8443 gives https://example.com:8443.
C9_DefaultPortOmitted ==
    (parse.pc = "out" /\ parse.url # "") =>
        LET port == C9_Port(parse)
            def  == IF parse.protocol = "https" THEN "443" ELSE "80"
        IN  /\ (port = def) <=> C9_NoPort(parse)
            /\ (port # def) => HasSuffix(parse.url, ":" \o port)
            /\ (parse.router.Rule = "Host('example.com')" /\ parse.protocol = "https") =>
                   /\ (port = "443") => parse.url = "https://example.com"
                   /\ (port = "8443") => parse.url = "https://example.com:8443"

\* C9 witness: the spec's example, TLS on :443, and the URL without a port.
C9_Witness ==
    /\ parse.pc = "out"
    /\ parse.router.Rule = "Host('example.com')"
    /\ C8_Marker(parse.router.TLS)
    /\ parse.entryPoints["web"].Address = ":443"
    /\ parse.url = "https://example.com"

-----------------------------------------------------------------------------
(* Claims about the catalog caches, checked under SpecCache *)

\* The last call found data in its cache, asked the network, and the refresh
\* failed: the cached data had outlived its time-to-live.
StaleRefreshFailed ==
    /\ lastCall.fn # "none"
    /\ lastCall.cached # <<>>
    /\ lastCall.fetched
    /\ lastCall.answer \in {"neterr", "decodeerr"}

\* C1 as claimed: when a catalog cache holds data that has outlived its
\* time-to-live and the refresh fails, the getter serves the stale cached data to
\* the caller instead of failing.
C1_StaleServed ==
    StaleRefreshFailed => (~lastCall.err /\ lastCall.ret = lastCall.cached)

\* C1 as amended: in that case the getter returns an error and no data to the
\* caller; the stale data is not served but stays in the cache.
C1_StaleKept ==
    StaleRefreshFailed =>
        /\ lastCall.err
        /\ lastCall.ret = <<>>
        /\ (lastCall.fn = "icons" => selfhstIcons = lastCall.cached)
        /\ (lastCall.fn = "apps" => selfhstApps = lastCall.cached)

\* C1 witness: the app-tag cache, a day old, and a refresh the network refused.
C1_Witness ==
    /\ StaleRefreshFailed
    /\ lastCall.fn = "apps"
    /\ lastCall.answer = "neterr"
    /\ now - selfhstAppsCacheTime >= selfhstAppsCacheTTL
    /\ selfhstApps # <<>>

\* C3: a failed refresh of either catalog (network error or undecodable body)
\* returns an error to the caller and leaves that cache's data and last-refresh
\* time as they were before the call; the other cache is not touched either.
C3_FailedRefreshFrame ==
    [][ (lastCall'.fetched /\ lastCall'.answer \in {"neterr", "decodeerr"}) =>
            /\ lastCall'.err
            /\ lastCall'.ret = <<>>
            /\ UNCHANGED <<selfhstIcons, selfhstCacheTime, selfhstApps, selfhstAppsCacheTime>>
      ]_vars

\* C3 witness: an undecodable answer to a refresh of the stale icon cache, while
\* both caches hold data.
C3_Witness ==
    /\ lastCall.fn = "icons"
    /\ lastCall.fetched
    /\ lastCall.answer = "decodeerr"
    /\ lastCall.cached # <<>>
    /\ selfhstIcons = lastCall.cached
    /\ selfhstApps # <<>>

\* C23: a call of GetSelfHstIconNames (GetSelfHstAppTags) returns the cached
\* catalog without asking the network exactly when the cache is non-empty and
\* was refreshed less than 1 hour (24 hours) before; every other call asks the
\* network, and a fetch that succeeds replaces the data with the sorted list it
\* returns and sets the refresh time to the time of the call.
C23_FetchWhenStale ==
    [][ now' = now =>
          LET icons  == lastCall'.fn = "icons"
              data   == IF icons THEN selfhstIcons ELSE selfhstApps
              age    == now - (IF icons THEN selfhstCacheTime ELSE selfhstAppsCacheTime)
              ttl    == IF icons THEN 1 ELSE 24
              data2  == IF icons THEN selfhstIcons' ELSE selfhstApps'
              time2  == IF icons THEN selfhstCacheTime' ELSE selfhstAppsCacheTime'
              cached == Len(data) > 0 /\ age < ttl
          IN  /\ lastCall'.fn \in {"icons", "apps"}
              /\ lastCall'.fetched <=> ~cached
              /\ cached => /\ lastCall'.ret = data /\ ~lastCall'.err
                           /\ UNCHANGED <<selfhstIcons, selfhstCacheTime,
                                          selfhstApps, selfhstAppsCacheTime>>
              /\ (lastCall'.fetched /\ lastCall'.answer = "ok") =>
                    /\ ~lastCall'.err
                    /\ data2 = lastCall'.ret
                    /\ time2 = now
      ]_vars

\* C23 witness: the icon catalog, cached an hour ago to the minute, has just been
\* fetched again and replaced, while the app catalog of the same age was served
\* from its cache before.
C23_Witness ==
    /\ lastCall.fn = "icons"
    /\ lastCall.cached # <<>>
    /\ lastCall.fetched /\ lastCall.answer = "ok"
    /\ selfhstIcons = lastCall.ret /\ selfhstIcons # lastCall.cached
    /\ selfhstCacheTime = now
    /\ now = Boot + 1
    /\ selfhstApps # <<>> /\ selfhstAppsCacheTime = Boot

Sorted(list) == \A i, j \in 1..Len(list) : i < j => RefLess(list[i], list[j])

\* C24: in every reachable state the cached icon catalog and the cached app
\* catalog are sorted by the length of the reference and then lexicographically,
\* and so is every list a caller has been handed.
C24_CatalogsSorted ==
    /\ Sorted(selfhstIcons)
    /\ Sorted(selfhstApps)
    /\ Sorted(lastCall.ret)
    /\ Sorted(lastCall.cached)

\* C24 witness: the network listed plex last, and the cache and the caller have
\* it first.
C24_Witness ==
    /\ lastCall.fn = "icons" /\ lastCall.fetched /\ lastCall.answer = "ok"
    /\ Len(selfhstIcons) = 3
    /\ selfhstIcons[1].Reference = "plex"
    /\ selfhstIcons[3].Reference = "plex-meta-manager"
    /\ lastCall.ret = selfhstIcons

-----------------------------------------------------------------------------
(* Claims about FindIcon and ProcessRouter, checked under SpecRouter *)

\* FindIcon has returned for the worker's record.
IconFound == worker.pc \in {"tags", "done"} /\ worker.drop = ""

FirstNonEmpty(list) ==
    LET hits == SelectSeq(list, LAMBDA x : x # "") IN IF hits = <<>> THEN "" ELSE hits[1]

\* What each tier has for the worker's record: the override, the local match,
\* the catalog entry for the reference, the favicon and the linked icon.
TierIcons ==
    << IF GetIconOverride(worker.routerName) # ""
       THEN OverrideIcon(GetIconOverride(worker.routerName)) ELSE "",
       FindUserIcon(displayNameReplaced),
       worker.catalogURL,
       IF worker.net.favicon THEN FaviconURL(worker.serviceURL) ELSE "",
       IF worker.net.page = "image" THEN LinkedIconURL(worker.serviceURL) ELSE "" >>

\* C2 as claimed: FindIcon returns the result of the lowest-numbered tier that
\* succeeds and moves on whenever a tier yields no icon, tier 3 included; it
\* returns the empty string only when all five tiers fail.
C2_Cascade == IconFound => worker.icon = FirstNonEmpty(TierIcons)

\* The part of the router's name before "@".
NameBeforeAt(router) == SplitFirst(router.Name, "@")

MatchesExcludePattern(name) ==
    \E i \in 1..Len(configuration.ExcludeRouters) :
        /\ ~BadPattern(configuration.ExcludeRouters[i])
        /\ Match(configuration.ExcludeRouters[i], name)

\* C4 as claimed: a router whose name (the part before "@") matches a configured
\* router exclude pattern is absent from the output of ProcessRouter, whatever
\* entry points the record lists.
C4_ExcludedAbsent ==
    (worker.pc # "idle" /\ MatchesExcludePattern(NameBeforeAt(worker.router))) =>
        (worker.drop # "" /\ ~worker.ok)

\* The record stands for the proxy's own API endpoint: its protocol, host and
\* port are the configured API host address and its path prefix is /api.
IsAPIEndpoint(router) ==
    LET found == FirstEntryPoint(router, EntryPointsMap)
        host == hostRegex(router.Rule)
        path == pathRegex(router.Rule)
        protocol == DetermineProtocol(router, found[1])
        port == TrimPrefix(found[1].Address, ":")
        address == protocol \o "://" \o host[1] \o
                   (IF IsDefaultPort(protocol, port) THEN "" ELSE ":" \o port)
    IN  /\ found # <<>> /\ host # <<>> /\ path # <<>>
        /\ address = configuration.APIHost
        /\ path[1] = "/api"

\* C5 as claimed: a record that stands for the proxy's own API endpoint is dropped
\* by ProcessRouter, for default and for non-default ports alike.
C5_APIEndpointDropped ==
    (worker.pc # "idle" /\ IsAPIEndpoint(worker.router)) => (worker.drop # "" /\ ~worker.ok)

\* C7: ReconstructURL returns the empty string exactly when the rule has no Host
\* capture, the record lists no entry point, or the first listed entry point is
\* not in the mapping; ProcessRouter drops every such record, so no service is
\* emitted with an empty URL.
C7_NoEmptyURL ==
    worker.pc # "idle" =>
        /\ (worker.serviceURL = "") <=>
              \/ hostRegex(worker.router.Rule) = <<>>
              \/ worker.router.EntryPoints = <<>>
              \/ worker.router.EntryPoints[1] \notin DOMAIN EntryPointsMap
        /\ (worker.serviceURL = "") => (worker.pc = "done" /\ ~worker.ok)
        /\ worker.ok => (worker.service.URL # "" /\ worker.service.URL = worker.serviceURL)

\* C7 witness: a record whose first entry point is unknown and whose second is
\* known, dropped without a URL.
C7_Witness ==
    /\ worker.pc = "done"
    /\ worker.router.EntryPoints = <<"missing", "web">>
    /\ hostRegex(worker.router.Rule) # <<>>
    /\ worker.serviceURL = ""
    /\ ~worker.ok

\* An override that is a file name with one of the recognized extensions.
RecognizedExtensions == {"png", "svg", "webp"}

IsFileOverride(v, e) ==
    /\ v # ""
    /\ ~HasPrefix(v, "http://") /\ ~HasPrefix(v, "https://")
    /\ HasSuffix(v, "." \o e)

\* C10: when an icon override that is a file name with a recognized extension is
\* configured for an identifier, FindIcon returns the catalog base URL followed by
\* the extension directory and the lower-cased file name (svg/foo.svg for foo.svg
\* on X), whatever the catalogs and the local icon index hold, and issues no
\* network probe.
C10_OverrideShortCircuit ==
    IconFound =>
        \A e \in RecognizedExtensions :
            IsFileOverride(GetIconOverride(worker.routerName), e) =>
                /\ worker.icon = configuration.SelfhstIconURL \o e \o "/"
                                   \o ToLower(GetIconOverride(worker.routerName))
                /\ probes = {}
                /\ worker.routerName = "X" => HasSuffix(worker.icon, "svg/foo.svg")

\* C10 witness: X, with a reference resolved from a filled catalog and a local
\* icon that matches its name, gets the override's icon and no probe.
C10_Witness ==
    /\ worker.pc = "done" /\ worker.ok
    /\ worker.routerName = "X"
    /\ worker.reference # ""
    /\ selfhstIcons # <<>>
    /\ FindUserIcon(displayNameReplaced) # ""
    /\ worker.service.Icon = DefaultIconURL \o "svg/foo.svg"
    /\ probes = {}

-----------------------------------------------------------------------------
(* The grouping engine: grouping.go *)

\* config.Environment.Grouping as the engine reads it. The threshold is kept in
\* hundredths (0.9 is 90): int(threshold * float64(total)) is then the integer
\* division below, exact for the thresholds and totals of the model.
GroupingConfig(enabled, threshold, min) ==
    [Enabled |-> enabled, TagFrequencyThreshold |-> threshold, MinServicesPerGroup |-> min]

GetGroupingEnabled == grouping.config.Enabled
GetTagFrequencyThreshold == grouping.config.TagFrequencyThreshold
GetMinServicesPerGroup == grouping.config.MinServicesPerGroup

\* sort.Strings
RECURSIVE InsertString(_, _)
InsertString(x, list) ==
    IF list = <<>> THEN <<x>>
    ELSE IF StrLess(x, Head(list)) THEN <<x>> \o list
    ELSE <<Head(list)>> \o InsertString(x, Tail(list))

RECURSIVE SortStrings(_)
SortStrings(list) ==
    IF list = <<>> THEN <<>> ELSE InsertString(Head(list), SortStrings(Tail(list)))

\* The orders a range over a Go map with these keys can take.
RECURSIVE MapOrders(_)
MapOrders(keys) ==
    IF keys = {} THEN {<<>>}
    ELSE UNION { { <<k>> \o rest : rest \in MapOrders(keys \ {k}) } : k \in keys }

\* The disabled branch: every label is cleared.
ClearGroups_KeepSet(services) == services

ClearGroups(services) ==
    [i \in 1..Len(services) |-> [services[i] EXCEPT !.Group = ""]]

\* The indices of the services that carry no label, in slice order.
RECURSIVE RemainingIndices_All(_, _)
RemainingIndices_All(services, i) ==
    IF i > Len(services) THEN <<>> ELSE <<i>> \o RemainingIndices_All(services, i + 1)

RECURSIVE RemainingIndices(_, _)
RemainingIndices(services, i) ==
    IF i > Len(services) THEN <<>>
    ELSE (IF services[i].Group # "" THEN <<>> ELSE <<i>>) \o RemainingIndices(services, i + 1)

\* remaining[i] = services[remainingIndices[i]]
Remaining(services, remainingIndices) ==
    [i \in 1..Len(remainingIndices) |-> services[remainingIndices[i]]]

\* calculateTagFrequencies: tagCount[tag]++ for every tag of every service.
RECURSIVE CountTag(_, _, _)
CountTag(remaining, tag, i) ==
    IF i > Len(remaining) THEN 0
    ELSE Cardinality({j \in 1..Len(remaining[i].Tags) : remaining[i].Tags[j] = tag})
         + CountTag(remaining, tag, i + 1)

calculateTagFrequencies(remaining) ==
    LET tags == UNION { {remaining[i].Tags[j] : j \in 1..Len(remaining[i].Tags)} :
                        i \in 1..Len(remaining) }
    IN  [tag \in tags |-> CountTag(remaining, tag, 1)]

\* tagCount[tag] of a Go map: zero for a missing key.
TagCount(tagCount, tag) == IF tag \in DOMAIN tagCount THEN tagCount[tag] ELSE 0

\* The body of filterValidTags' loop without the test for tags that are too common.
KeepTag_NoThreshold(remaining, tagCount, tag) ==
    LET count == tagCount[tag]
        minServicesPerGroup == GetMinServicesPerGroup
    IN  IF count = 1 /\ minServicesPerGroup > 1
        THEN \E i \in 1..Len(remaining) :
                 Len(remaining[i].Tags) = 1 /\ remaining[i].Tags[1] = tag
        ELSE count >= minServicesPerGroup

\* The body of filterValidTags' loop: whether the tag is appended to validTags.
KeepTag(remaining, tagCount, tag) ==
    LET count == tagCount[tag]
        total == Len(remaining)
        threshold == (GetTagFrequencyThreshold * total) \div 100
        minServicesPerGroup == GetMinServicesPerGroup
    IN  IF count > threshold /\ count < minServicesPerGroup THEN FALSE
        ELSE IF count = 1 /\ minServicesPerGroup > 1
        THEN \E i \in 1..Len(remaining) :
                 Len(remaining[i].Tags) = 1 /\ remaining[i].Tags[1] = tag
        ELSE count >= minServicesPerGroup

\* The tags of the services, service after service.
RECURSIVE TagsInSliceOrder(_, _)
TagsInSliceOrder(remaining, i) ==
    IF i > Len(remaining) THEN <<>>
    ELSE remaining[i].Tags \o TagsInSliceOrder(remaining, i + 1)

\* filterValidTags that ranges over the services' tags and does not sort.
filterValidTags_SliceOrder(remaining, tagCount, order) ==
    SelectSeq(TagsInSliceOrder(remaining, 1), LAMBDA tag : KeepTag(remaining, tagCount, tag))

\* filterValidTags, ranging over the map in the given order.
filterValidTags(remaining, tagCount, order) ==
    SortStrings(SelectSeq(order, LAMBDA tag : KeepTag(remaining, tagCount, tag)))

\* -math.Abs(a - sqrt(n)) > -math.Abs(b - sqrt(n)), for counts a and b: squared,
\* (a - b)(a + b) < 2 sqrt(n) (a - b).
Closer(a, b, n) ==
    IF a < b THEN (a + b) * (a + b) > 4 * n
    ELSE IF a > b THEN (a + b) * (a + b) < 4 * n
    ELSE FALSE

\* selectBestTag with the sign of the score lost: the farthest count wins.
RECURSIVE selectBestTag_Farthest(_, _, _)
selectBestTag_Farthest(validTags, tagCount, n) ==
    IF validTags = <<>> THEN ""
    ELSE LET last == validTags[Len(validTags)]
             best == selectBestTag_Farthest(SubSeq(validTags, 1, Len(validTags) - 1), tagCount, n)
         IN  IF best = "" \/ Closer(TagCount(tagCount, best), TagCount(tagCount, last), n)
             THEN last ELSE best

\* selectBestTag: the first tag of validTags whose count is closest to
\* targetSize = sqrt(n); the first tag beats the initial score of -1e9.
RECURSIVE selectBestTag(_, _, _)
selectBestTag(validTags, tagCount, n) ==
    IF validTags = <<>> THEN ""
    ELSE LET last == validTags[Len(validTags)]
             best == selectBestTag(SubSeq(validTags, 1, Len(validTags) - 1), tagCount, n)
         IN  IF best = "" \/ Closer(TagCount(tagCount, last), TagCount(tagCount, best), n)
             THEN last ELSE best

\* The test for the tag left out: every remaining service matches.
HasTag_Any(s, tag) == TRUE

\* for _, t := range s.Tags { if t == bestTag ... }
HasTag(s, tag) == \E j \in 1..Len(s.Tags) : s.Tags[j] = tag

\* assignGroupToServices: the slice with the label set, and the indices left.
assignGroupToServices(services, remainingIndices, bestTag, groupName) ==
    [services |->
        [i \in 1..Len(services) |->
            IF (\E k \in 1..Len(remainingIndices) : remainingIndices[k] = i)
               /\ HasTag(services[i], bestTag)
            THEN [services[i] EXCEPT !.Group = groupName] ELSE services[i]],
     remainingIndices |->
        SelectSeq(remainingIndices, LAMBDA idx : ~HasTag(services[idx], bestTag))]

\* One call of CalculateGroups: the slice it was handed (entry), the slice it
\* works on, its locals, the valid tags the loop started with and the iterations
\* it has made, the number of the call and the call before it.
NoPick == [tag |-> "", remaining |-> <<>>]
NoPrevious == [entry |-> <<>>, exit |-> <<>>]

GroupingCall(config, input, entry, call, previous) ==
    [pc |-> "start", config |-> config, input |-> input, entry |-> entry,
     services |-> entry, remainingIndices |-> <<>>,
     tagCount |-> calculateTagFrequencies(<<>>), validTags |-> <<>>, targetSize |-> 0,
     picked |-> NoPick, validAtEntry |-> <<>>, iterations |-> 0,
     call |-> call, previous |-> previous]

\* The orders in which filterValidTags may range over tagCount at entry.
EntryOrders ==
    IF grouping.pc = "start" /\ GetGroupingEnabled
    THEN MapOrders(DOMAIN calculateTagFrequencies(
             Remaining(grouping.services, RemainingIndices(grouping.services, 1))))
    ELSE {<<>>}

\* CalculateGroups up to its loop: the disabled branch, the pre-assigned labels,
\* the first frequencies, the valid tags and the target size.
CalculateGroupsEnter(order) ==
    /\ grouping.pc = "start"
    /\ IF ~GetGroupingEnabled
       THEN grouping' = [grouping EXCEPT !.pc = "done",
                                         !.services = ClearGroups(grouping.services)]
       ELSE LET remainingIndices == RemainingIndices(grouping.services, 1)
                remaining == Remaining(grouping.services, remainingIndices)
                tagCount == calculateTagFrequencies(remaining)
            IN  IF Len(remainingIndices) = 0
                THEN grouping' = [grouping EXCEPT !.pc = "done"]
                ELSE grouping' = [grouping EXCEPT
                        !.pc = "loop",
                        !.remainingIndices = remainingIndices,
                        !.tagCount = tagCount,
                        !.validTags = filterValidTags(remaining, tagCount, order),
                        !.validAtEntry = filterValidTags(remaining, tagCount, order),
                        !.targetSize = Len(remaining)]
    /\ UNCHANGED <<now, selfhstIcons, selfhstCacheTime, selfhstApps, selfhstAppsCacheTime,
                   lastCall, configuration, worker, userIcons, probes, parse,
                   manual, request, refresh>>

\* The selected tag left in validTags.
RemoveTag_Kept(validTags, bestTag) == validTags

\* newValidTags: validTags without bestTag.
RemoveTag(validTags, bestTag) == SelectSeq(validTags, LAMBDA tag : tag # bestTag)

\* One iteration of the loop: select, assign, drop the tag, count again.
CalculateGroupsIterate ==
    /\ grouping.pc = "loop"
    /\ Len(grouping.remainingIndices) > 0 /\ Len(grouping.validTags) > 0
    /\ LET bestTag == selectBestTag(grouping.validTags, grouping.tagCount, grouping.targetSize)
           assigned == assignGroupToServices(grouping.services, grouping.remainingIndices,
                                             bestTag, bestTag)
           remaining == Remaining(assigned.services, assigned.remainingIndices)
       IN  grouping' =
             IF bestTag = "" THEN [grouping EXCEPT !.pc = "done"]
             ELSE [grouping EXCEPT
                     !.services = assigned.services,
                     !.remainingIndices = assigned.remainingIndices,
                     !.validTags = RemoveTag(grouping.validTags, bestTag),
                     !.iterations = @ + 1,
                     !.tagCount = calculateTagFrequencies(remaining),
                     !.picked = [tag |-> bestTag,
                                 remaining |-> Remaining(grouping.services,
                                                         grouping.remainingIndices)]]
    /\ UNCHANGED <<now, selfhstIcons, selfhstCacheTime, selfhstApps, selfhstAppsCacheTime,
                   lastCall, configuration, worker, userIcons, probes, parse,
                   manual, request, refresh>>

\* The loop's condition fails: CalculateGroups returns the slice.
CalculateGroupsReturn ==
    /\ grouping.pc = "loop"
    /\ ~(Len(grouping.remainingIndices) > 0 /\ Len(grouping.validTags) > 0)
    /\ grouping' = [grouping EXCEPT !.pc = "done"]
    /\ UNCHANGED <<now, selfhstIcons, selfhstCacheTime, selfhstApps, selfhstAppsCacheTime,
                   lastCall, configuration, worker, userIcons, probes, parse,
                   manual, request, refresh>>

\* Calls of CalculateGroups in one run of the model.
MaxCalls == 2

\* The next request calls CalculateGroups on the same services again.
CalculateGroupsSame ==
    /\ grouping.pc = "done"
    /\ grouping.call < MaxCalls
    /\ grouping' = GroupingCall(grouping.config, grouping.input, grouping.input,
                                grouping.call + 1,
                                [entry |-> grouping.entry, exit |-> grouping.services])
    /\ UNCHANGED <<now, selfhstIcons, selfhstCacheTime, selfhstApps, selfhstAppsCacheTime,
                   lastCall, configuration, worker, userIcons, probes, parse,
                   manual, request, refresh>>

\* CalculateGroups is called on the slice it has just returned.
CalculateGroupsOnOutput ==
    /\ grouping.pc = "done"
    /\ grouping.call < MaxCalls
    /\ grouping' = GroupingCall(grouping.config, grouping.input, grouping.services,
                                grouping.call + 1,
                                [entry |-> grouping.entry, exit |-> grouping.services])
    /\ UNCHANGED <<now, selfhstIcons, selfhstCacheTime, selfhstApps, selfhstAppsCacheTime,
                   lastCall, configuration, worker, userIcons, probes, parse,
                   manual, request, refresh>>

\* The slice with its elements in the order perm names them.
Permute(services, perm) == [i \in 1..Len(services) |-> services[perm[i]]]

\* The orders of n services the model hands over: every rotation, the reverse
\* order, and the first two exchanged.
Reorderings(n) ==
    { [i \in 1..n |-> ((i + k - 1) % n) + 1] : k \in 0..(n - 1) }
    \cup { [i \in 1..n |-> n + 1 - i] }
    \cup { [i \in 1..n |-> IF n > 1 /\ i <= 2 THEN 3 - i ELSE i] }

\* The next request hands CalculateGroups the same services in another order, as
\* the join of the goroutines may.
CalculateGroupsPermuted(perm) ==
    /\ grouping.pc = "done"
    /\ grouping.call < MaxCalls
    /\ perm \in Reorderings(Len(grouping.input))
    /\ grouping' = GroupingCall(grouping.config, grouping.input,
                                Permute(grouping.input, perm), grouping.call + 1,
                                [entry |-> grouping.entry, exit |-> grouping.services])
    /\ UNCHANGED <<now, selfhstIcons, selfhstCacheTime, selfhstApps, selfhstAppsCacheTime,
                   lastCall, configuration, worker, userIcons, probes, parse,
                   manual, request, refresh>>

\* Services as the handler hands them over: name, URL, tags and, for those an
\* override or a manual declaration labelled, the group.
Tagged(name, tags) == Service(name, "https://" \o name \o ".example.com", 0, "", tags, "")

Scenarios ==
    { << Tagged("A", <<"x", "y">>), Tagged("B", <<"x">>), Tagged("C", <<"y", "z">>),
         Tagged("D", <<"z">>) >>,
      << Tagged("A", <<"x", "y">>), Tagged("B", <<"x">>), Tagged("C", <<"y", "w">>) >>,
      << Tagged("P", <<"a", "t">>), Tagged("Q", <<"a">>), Tagged("R", <<"a">>),
         Tagged("S", <<"t">>), Tagged("T", <<"u", "v">>) >>,
      << Tagged("S", <<"t">>) >>,
      << Tagged("A", <<"x">>), Tagged("B", <<"y", "z">>) >>,
      << Tagged("E", <<>>), Tagged("F", <<"x">>), Tagged("G", <<"x">>) >> }

Labelled(services, labelled) ==
    [i \in 1..Len(services) |->
        IF i \in labelled THEN [services[i] EXCEPT !.Group = "media"] ELSE services[i]]

GroupingInputs ==
    UNION { { Labelled(s, labelled) : labelled \in SUBSET (1..Len(s)) } : s \in Scenarios }

GroupingConfigs ==
    { GroupingConfig(TRUE, threshold, min) : threshold \in {50, 90}, min \in {1, 2, 3} }
    \cup { GroupingConfig(FALSE, 90, 2) }

InitGroup ==
    /\ ColdCaches
    /\ configuration = NoConfiguration
    /\ worker = IdleWorker
    /\ userIcons = NoUserIcons
    /\ probes = {}
    /\ parse = NoParse
    /\ manual = NoManual /\ request = NoRequest /\ refresh = NoRefresh
    /\ \E config \in GroupingConfigs, input \in GroupingInputs :
         grouping = GroupingCall(config, input, input, 1, NoPrevious)

NextGroup ==
    \/ \E order \in EntryOrders : CalculateGroupsEnter(order)
    \/ CalculateGroupsIterate
    \/ CalculateGroupsReturn
    \/ CalculateGroupsSame
    \/ CalculateGroupsOnOutput
    \/ \E perm \in Reorderings(Len(grouping.input)) : CalculateGroupsPermuted(perm)

SpecGroup == InitGroup /\ [][NextGroup]_vars

\* One call of CalculateGroups, which runs on once it has been entered.
NextCall ==
    \/ \E order \in EntryOrders : CalculateGroupsEnter(order)
    \/ CalculateGroupsIterate
    \/ CalculateGroupsReturn

\* The calls whose loop is followed to its end: the scenarios as they are and
\* with their first service labelled.
InitLoop ==
    /\ ColdCaches
    /\ configuration = NoConfiguration
    /\ worker = IdleWorker
    /\ userIcons = NoUserIcons
    /\ probes = {}
    /\ parse = NoParse
    /\ manual = NoManual /\ request = NoRequest /\ refresh = NoRefresh
    /\ \E config \in GroupingConfigs, s \in Scenarios, labelled \in {{}, {1}} :
         grouping = GroupingCall(config, Labelled(s, labelled), Labelled(s, labelled),
                                 1, NoPrevious)

\* A call that has reached its loop goes on until it returns.
SpecGroupFair ==
    InitLoop /\ [][NextCall]_vars
    /\ WF_vars(CalculateGroupsIterate \/ CalculateGroupsReturn)

-----------------------------------------------------------------------------
(* Claims about the grouping engine, checked under SpecGroup *)

GroupsOf(services) == [i \in 1..Len(services) |-> services[i].Group]

\* C13: with grouping disabled, CalculateGroups returns every service with an
\* empty group label, also those an override or a manual declaration labelled,
\* and changes nothing else of them.
C13_DisabledClearsGroups ==
    (grouping.pc = "done" /\ ~GetGroupingEnabled) =>
        /\ Len(grouping.services) = Len(grouping.entry)
        /\ \A i \in 1..Len(grouping.services) :
              /\ grouping.services[i].Group = ""
              /\ grouping.services[i] = [grouping.entry[i] EXCEPT !.Group = ""]

\* C13 witness: grouping disabled, a labelled service handed in, none handed back.
C13_Witness ==
    /\ grouping.pc = "done" /\ ~GetGroupingEnabled
    /\ \E i \in 1..Len(grouping.entry) : grouping.entry[i].Group = "media"
    /\ \A i \in 1..Len(grouping.services) : grouping.services[i].Group = ""

\* The services that carried a label when CalculateGroups was entered.
LabelledOnEntry == {i \in 1..Len(grouping.entry) : grouping.entry[i].Group # ""}

\* C14: with grouping enabled, CalculateGroups never changes a non-empty label a
\* service carries on entry, and such services are left out of the clustering:
\* they are no remaining index, they count in no tag frequency and not in the
\* remaining total the target size is taken from.
C14_LabelledUntouched ==
    (grouping.pc # "idle" /\ GetGroupingEnabled) =>
        /\ \A i \in LabelledOnEntry : grouping.services[i] = grouping.entry[i]
        /\ \A k \in 1..Len(grouping.remainingIndices) :
              grouping.remainingIndices[k] \notin LabelledOnEntry
        /\ grouping.pc = "loop" =>
              /\ grouping.targetSize = Len(grouping.entry) - Cardinality(LabelledOnEntry)
              /\ \A tag \in DOMAIN grouping.tagCount :
                    grouping.tagCount[tag] =
                        Cardinality({i \in 1..Len(grouping.services) :
                                        /\ i \notin LabelledOnEntry
                                        /\ grouping.services[i].Group = ""
                                        /\ HasTag(grouping.services[i], tag)})

\* C14 witness: a labelled service that carries a tag the others were clustered by.
C14_Witness ==
    /\ grouping.pc = "done" /\ GetGroupingEnabled
    /\ \E i \in LabelledOnEntry, j \in 1..Len(grouping.entry) :
          /\ j \notin LabelledOnEntry
          /\ grouping.services[j].Group # ""
          /\ HasTag(grouping.entry[i], grouping.services[j].Group)
          /\ grouping.services[i].Group = "media"

\* The scenario of the specification: four unlabelled services.
Scenario ==
    << Tagged("A", <<"x", "y">>), Tagged("B", <<"x">>), Tagged("C", <<"y", "z">>),
       Tagged("D", <<"z">>) >>

\* C15: with grouping enabled, minGroupSize 2, frequencyThreshold 0.9 and the four
\* unlabelled services A[x,y], B[x], C[y,z], D[z], CalculateGroups assigns A and B
\* to group x and C and D to group z.
C15_Scenario ==
    (/\ grouping.pc = "done"
     /\ grouping.entry = Scenario
     /\ grouping.config = GroupingConfig(TRUE, 90, 2)) =>
        GroupsOf(grouping.services) = <<"x", "x", "z", "z">>

\* C15 witness: the scenario, run to its end through two selections.
C15_Witness ==
    /\ grouping.pc = "done"
    /\ grouping.entry = Scenario
    /\ grouping.config = GroupingConfig(TRUE, 90, 2)
    /\ grouping.picked.tag = "z"
    /\ Len(grouping.picked.remaining) = 2
    /\ GroupsOf(grouping.services) = <<"x", "x", "z", "z">>

\* C16 as claimed: for a fixed list of services and fixed thresholds every call of
\* CalculateGroups yields the same label for each service, whatever the order of
\* the map range, and a call on its own output changes no label.
C16_DeterministicIdempotent ==
    (grouping.pc = "done" /\ grouping.call > 1) =>
        /\ grouping.entry = grouping.previous.entry =>
              GroupsOf(grouping.services) = GroupsOf(grouping.previous.exit)
        /\ grouping.entry = grouping.previous.exit =>
              GroupsOf(grouping.services) = GroupsOf(grouping.entry)

\* C19 as claimed: a tag is selected in an iteration only if it passes the
\* validity filter evaluated on the services still ungrouped at that iteration.
C19_SelectedTagValid ==
    (grouping.pc # "idle" /\ grouping.picked.tag # "") =>
        LET tagCount == calculateTagFrequencies(grouping.picked.remaining)
        IN  /\ grouping.picked.tag \in DOMAIN tagCount
            /\ KeepTag(grouping.picked.remaining, tagCount, grouping.picked.tag)

\* filterValidTags has just returned: the loop has not selected yet.
Filtered == grouping.pc = "loop" /\ grouping.picked = NoPick

EntryRemaining == Remaining(grouping.services, grouping.remainingIndices)

SingleTagService(tag) ==
    \E i \in 1..Len(EntryRemaining) : EntryRemaining[i].Tags = <<tag>>

SetOf(list) == {list[i] : i \in 1..Len(list)}

\* C20 as claimed: filterValidTags returns exactly the tags of the remaining
\* services for which (a) the frequency is below frequencyThreshold x
\* totalRemaining or is at least minGroupSize, and (b) if the frequency is 1 and
\* minGroupSize > 1, some remaining service's entire tag set is that tag.
C20_FilterAsClaimed ==
    Filtered =>
        SetOf(grouping.validTags) =
            {tag \in DOMAIN grouping.tagCount :
                LET count == grouping.tagCount[tag] IN
                /\ \/ count * 100 < GetTagFrequencyThreshold * Len(EntryRemaining)
                   \/ count >= GetMinServicesPerGroup
                /\ (count = 1 /\ GetMinServicesPerGroup > 1) => SingleTagService(tag)}

\* C20 as amended: filterValidTags returns exactly, in sorted order and once each,
\* the tags whose frequency is at least minGroupSize and, when minGroupSize > 1,
\* the tags of frequency 1 that are not above frequencyThreshold x totalRemaining
\* and are the entire tag set of some remaining service.
C20_Filter ==
    Filtered =>
        /\ SetOf(grouping.validTags) =
            {tag \in DOMAIN grouping.tagCount :
                LET count == grouping.tagCount[tag] IN
                \/ count >= GetMinServicesPerGroup
                \/ /\ count = 1 /\ GetMinServicesPerGroup > 1
                   /\ count * 100 <= GetTagFrequencyThreshold * Len(EntryRemaining)
                   /\ SingleTagService(tag)}
        /\ \A i, j \in 1..Len(grouping.validTags) :
              i < j => StrLess(grouping.validTags[i], grouping.validTags[j])

\* C20 witness: five services, minGroupSize 3: t, carried by two of them and far
\* below the threshold, is not returned, and a, carried by three, is.
C20_Witness ==
    /\ Filtered
    /\ GetMinServicesPerGroup = 3 /\ GetTagFrequencyThreshold = 90
    /\ Len(EntryRemaining) = 5
    /\ grouping.tagCount["t"] = 2
    /\ grouping.validTags = <<"a">>

\* An iteration of the loop has selected: the tag, the services that remained
\* when it did, their frequencies, and the valid tags it chose from.
Picked == grouping.pc # "idle" /\ grouping.picked.tag # ""

PickedCount(tag) == TagCount(calculateTagFrequencies(grouping.picked.remaining), tag)

PickedFrom == SetOf(grouping.validTags) \cup {grouping.picked.tag}

\* C21 as claimed: the tag an iteration selects is, among the tags valid at that
\* iteration, the one whose frequency in the services then remaining is closest
\* to the square root of their number, and of several equally close the
\* lexicographically first.
C21_ClosestToCurrentRoot ==
    Picked =>
        \A tag \in PickedFrom :
            LET n == Len(grouping.picked.remaining)
                a == PickedCount(grouping.picked.tag)
                b == PickedCount(tag)
            IN  /\ ~Closer(b, a, n)
                /\ (~Closer(a, b, n) /\ tag # grouping.picked.tag) =>
                      StrLess(grouping.picked.tag, tag)

\* The services the loop has labelled: unlabelled on entry, labelled now.
Clustered ==
    {i \in 1..Len(grouping.services) :
        i \notin LabelledOnEntry /\ grouping.services[i].Group # ""}

\* C26 as claimed: with minGroupSize m > 1, every label the loop has assigned is
\* shared by at least m of the clustered services when CalculateGroups returns,
\* unless the service that got it has that tag as its entire tag set.
C26_GroupsReachMinimum ==
    (grouping.pc = "done" /\ GetGroupingEnabled /\ GetMinServicesPerGroup > 1) =>
        \A i \in Clustered :
            \/ Cardinality({j \in Clustered :
                               grouping.services[j].Group = grouping.services[i].Group})
                  >= GetMinServicesPerGroup
            \/ grouping.services[i].Tags = <<grouping.services[i].Group>>

\* The call before this one was handed the same services, in whatever order.
SameServices ==
    /\ Len(grouping.entry) = Len(grouping.previous.entry)
    /\ SetOf(grouping.entry) = SetOf(grouping.previous.entry)

\* C27: the label CalculateGroups gives a service does not depend on the order
\* of the services in its input: handed the same services in another order, it
\* returns every service with the label it returned it with before.
C27_OrderIndependent ==
    (grouping.pc = "done" /\ grouping.call > 1 /\ SameServices) =>
        \A i \in 1..Len(grouping.entry), j \in 1..Len(grouping.previous.entry) :
            grouping.entry[i] = grouping.previous.entry[j] =>
                grouping.services[i] = grouping.previous.exit[j]

\* C27 witness: five services, handed over a second time with the first of them
\* last, and two different labels assigned by the loop.
C27_Witness ==
    /\ grouping.pc = "done" /\ grouping.call > 1 /\ SameServices
    /\ Len(grouping.entry) = 5
    /\ grouping.entry[5] = grouping.previous.entry[1]
    /\ grouping.entry # grouping.previous.entry
    /\ \E i, j \in Clustered : grouping.services[i].Group # grouping.services[j].Group

\* C28: every label the loop has set on a service is one of that service's own
\* tags, and a service without tags that carried no label on entry carries
\* none at any point of the call.
C28_LabelIsOwnTag ==
    (grouping.pc # "idle" /\ GetGroupingEnabled) =>
        /\ \A i \in Clustered :
              grouping.services[i].Group \in SetOf(grouping.services[i].Tags)
        /\ \A i \in 1..Len(grouping.services) :
              (i \notin LabelledOnEntry /\ grouping.services[i].Tags = <<>>) =>
                  grouping.services[i].Group = ""

\* C28 witness: E has no tags and stays unlabelled while F and G are labelled x.
C28_Witness ==
    /\ grouping.pc = "done" /\ GetGroupingEnabled
    /\ Len(grouping.services) = 3
    /\ grouping.services[1].Tags = <<>> /\ grouping.services[1].Group = ""
    /\ 1 \notin LabelledOnEntry
    /\ {2, 3} \subseteq Clustered
    /\ grouping.services[2].Group = "x" /\ grouping.services[3].Group = "x"

\* C30: the loop of CalculateGroups terminates: every iteration takes its tag
\* out of validTags, so the iterations made and the valid tags left add up to the
\* valid tags the loop started with, and the call returns.
C30_LoopTerminates ==
    /\ [](grouping.pc \in {"loop", "done"} =>
            /\ grouping.iterations + Len(grouping.validTags) = Len(grouping.validAtEntry)
            /\ grouping.iterations <= Len(grouping.validAtEntry))
    /\ (grouping.pc = "loop" ~> grouping.pc = "done")

\* C30 witness: a call that started with four valid tags and has returned after
\* three iterations, with all five services labelled.
C30_Witness ==
    /\ grouping.pc = "done"
    /\ Len(grouping.validAtEntry) = 4
    /\ grouping.iterations = 3
    /\ Clustered = 1..5

-----------------------------------------------------------------------------
(* Manually declared services: GetManualServices, entry by entry: SpecManual *)

IsLetter(c) ==
    \E i \in 1..Len(LowerChars) : c = Char(LowerChars, i) \/ c = Char(UpperChars, i)

IsDigit(c) == \E i \in 1..10 : c = Char("0123456789", i)

\* net/url getScheme: the scheme and the rest, or the error of a leading colon.
RECURSIVE getScheme(_, _)
getScheme(rawURL, i) ==
    IF i > Len(rawURL) THEN [err |-> FALSE, scheme |-> "", rest |-> rawURL]
    ELSE LET c == Char(rawURL, i) IN
         IF IsLetter(c) THEN getScheme(rawURL, i + 1)
         ELSE IF IsDigit(c) \/ c \in {"+", "-", "."}
         THEN IF i = 1 THEN [err |-> FALSE, scheme |-> "", rest |-> rawURL]
              ELSE getScheme(rawURL, i + 1)
         ELSE IF c = ":"
         THEN IF i = 1 THEN [err |-> TRUE, scheme |-> "", rest |-> ""]
              ELSE [err |-> FALSE, scheme |-> SubSeq(rawURL, 1, i - 1),
                    rest |-> SubSeq(rawURL, i + 1, Len(rawURL))]
         ELSE [err |-> FALSE, scheme |-> "", rest |-> rawURL]

\* The text before the first of the characters of stops, or all of it.
RECURSIVE Before(_, _, _)
Before(s, stops, i) ==
    IF i > Len(s) THEN s
    ELSE IF Char(s, i) \in stops THEN SubSeq(s, 1, i - 1)
    ELSE Before(s, stops, i + 1)

RECURSIVE LastIndex(_, _, _)
LastIndex(s, c, i) ==
    IF i < 1 THEN 0 ELSE IF Char(s, i) = c THEN i ELSE LastIndex(s, c, i - 1)

\* net/url parseHost (no IPv6 literal): an invalid port or an invalid character
\* in the host name is an error.
HostError(host) ==
    LET i == LastIndex(host, ":", Len(host)) IN
    \/ i # 0 /\ \E j \in (i + 1)..Len(host) : ~IsDigit(Char(host, j))
    \/ \E j \in 1..Len(host) : Char(host, j) \in {" ", "<", ">"}

\* url.Parse, as far as IsValidUrl reads it: the error, the scheme and the Host
\* (host or host:port) of a URL without user information.
ParseURL(str) ==
    LET s == getScheme(Before(str, {"#"}, 1), 1)
        rest == Before(s.rest, {"?"}, 1)
        segment == Before(rest, {"/"}, 1)
        authority == IF HasPrefix(rest, "//")
                        /\ (s.scheme # "" \/ ~HasPrefix(rest, "///"))
                     THEN Before(SubSeq(rest, 3, Len(rest)), {"/"}, 1) ELSE ""
    IN  IF s.err THEN [err |-> TRUE, Scheme |-> "", Host |-> ""]
        ELSE IF ~HasPrefix(rest, "/") /\ s.scheme = "" /\ IndexFrom(segment, ":", 1) # 0
        THEN [err |-> TRUE, Scheme |-> "", Host |-> ""]
        ELSE IF HostError(authority) THEN [err |-> TRUE, Scheme |-> "", Host |-> ""]
        ELSE [err |-> FALSE, Scheme |-> ToLower(s.scheme), Host |-> authority]

\* IsValidUrl with the test of the host left out.
IsValidUrl_SchemeOnly(str) ==
    LET u == ParseURL(str) IN ~u.err /\ u.Scheme # ""

\* config.IsValidUrl
IsValidUrl(str) ==
    LET u == ParseURL(str) IN ~u.err /\ u.Scheme # "" /\ u.Host # ""

\* models.ManualService
ManualService(name, url, icon, priority, group) ==
    [Name |-> name, URL |-> url, Icon |-> icon, Priority |-> priority, Group |-> group]

\* The icon of a manual service that declares one.
ManualIcon(iconURL) ==
    IF HasPrefix(iconURL, "http://") \/ HasPrefix(iconURL, "https://") THEN iconURL
    ELSE IF Ext(iconURL) \in {".png", ".svg", ".webp"}
    THEN configuration.SelfhstIconURL \o TrimPrefix(Ext(iconURL), ".") \o "/" \o ToLower(iconURL)
    ELSE configuration.SelfhstIconURL \o "png/" \o iconURL

\* One call of GetManualServices: the declarations, the index of the entry at
\* hand, its reference and icon, and the result so far.
ManualCall(declared) ==
    [pc |-> "validate", declared |-> declared, i |-> 1, reference |-> "", icon |-> "",
     result |-> <<>>]

manualService == manual.declared[manual.i]

manualNameReplaced == ReplaceAll(manualService.Name, " ", "-")

\* The loop's head and the validation: an invalid entry is logged and skipped.
ManualValidate ==
    /\ manual.pc = "validate"
    /\ manual.i <= Len(manual.declared)
    /\ manual' = IF ~IsValidUrl(manualService.URL)
                 THEN [manual EXCEPT !.i = manual.i + 1]
                 ELSE [manual EXCEPT !.pc = "resolve"]
    /\ UNCHANGED <<now, selfhstIcons, selfhstCacheTime, selfhstApps, selfhstAppsCacheTime,
                   lastCall, configuration, worker, userIcons, probes, parse,
                   grouping, request, refresh>>

\* reference := icons.ResolveSelfHstReference(displayNameReplaced)
ManualResolve(fetch) ==
    /\ manual.pc = "resolve"
    /\ LET res == ResolveSelfHstReference(manualNameReplaced, fetch) IN
         /\ selfhstIcons' = res.call.data
         /\ selfhstCacheTime' = res.call.time
         /\ manual' = [manual EXCEPT !.pc = "icon", !.reference = res.reference]
    /\ UNCHANGED <<now, selfhstApps, selfhstAppsCacheTime, lastCall, configuration, worker,
                   userIcons, probes, parse, grouping, request, refresh>>

\* The icon: the declared one, or the one FindIcon finds.
ManualFindIcon(fetch, net) ==
    /\ manual.pc = "icon"
    /\ IF manualService.Icon = ""
       THEN LET res == FindIcon(manualService.Name, manualService.URL, manualNameReplaced,
                                manual.reference, fetch, net) IN
              /\ selfhstIcons' = res.call.data
              /\ selfhstCacheTime' = res.call.time
              /\ probes' = res.probes
              /\ manual' = [manual EXCEPT !.pc = "tags", !.icon = res.icon]
       ELSE /\ manual' = [manual EXCEPT !.pc = "tags", !.icon = ManualIcon(manualService.Icon)]
            /\ UNCHANGED <<selfhstIcons, selfhstCacheTime, probes>>
    /\ UNCHANGED <<now, selfhstApps, selfhstAppsCacheTime, lastCall, configuration, worker,
                   userIcons, parse, grouping, request, refresh>>

\* The tags, the default priority and the append to the result.
ManualFindTags(fetch) ==
    /\ manual.pc = "tags"
    /\ LET res == FindTags(manual.reference, fetch) IN
         /\ selfhstApps' = res.call.data
         /\ selfhstAppsCacheTime' = res.call.time
         /\ manual' = [manual EXCEPT
                         !.pc = "validate", !.i = manual.i + 1,
                         !.reference = "", !.icon = "",
                         !.result = Append(manual.result,
                             Service(manualService.Name, manualService.URL,
                                     IF manualService.Priority = 0 THEN 50
                                     ELSE manualService.Priority,
                                     manual.icon, res.tags, manualService.Group))]
    /\ UNCHANGED <<now, selfhstIcons, selfhstCacheTime, lastCall, configuration, worker,
                   userIcons, probes, parse, grouping, request, refresh>>

\* The range is exhausted: GetManualServices returns the result.
ManualReturn ==
    /\ manual.pc = "validate"
    /\ manual.i > Len(manual.declared)
    /\ manual' = [manual EXCEPT !.pc = "done"]
    /\ UNCHANGED <<now, selfhstIcons, selfhstCacheTime, selfhstApps, selfhstAppsCacheTime,
                   lastCall, configuration, worker, userIcons, probes, parse,
                   grouping, request, refresh>>

\* The declarations of services.manual in the model: well-formed ones and ones
\* whose URL IsValidUrl has to reject.
Broken(url) == ManualService("Broken", url, "", 0, "")

Declared ==
    [nas    |-> ManualService("NAS", "https://nas.local", "", 0, ""),
     router |-> ManualService("Router Admin", "http://10.0.0.1:8080/admin", "Router.png", 10,
                              "network"),
     plex   |-> ManualService("Plex", "HTTPS://plex.example.com/web?x=1", "", 0, "media"),
     proxy  |-> ManualService("Proxy", "http://:8080", "proxy", 0, "")]

Declarations ==
    { << >>,
      << Declared.nas, Broken("nas.local"), Declared.router >>,
      << Broken("https://"), Declared.plex >>,
      << Declared.router, Broken("://nas.local") >>,
      << Broken("//nas.local/x"), Broken("mailto:admin@nas.local") >>,
      << Declared.plex, Broken("http://nas local"), Broken("example.com:8080"), Declared.nas >>,
      << Broken("http://nas.local:port"), Declared.proxy, Broken("") >>,
      << Broken("https:///admin"), Broken("/admin"), Declared.nas >> }

\* The site is asked only when FindIcon gets as far as its probes.
ManualProbedAnswers ==
    IF /\ manual.pc = "icon"
       /\ manualService.Icon = ""
       /\ GetIconOverride(manualService.Name) = ""
       /\ FindUserIcon(manualNameReplaced) = ""
       /\ manual.reference = ""
    THEN SiteAnswers ELSE {NoAnswers}

InitManual ==
    /\ ColdCaches
    /\ \E d \in Deployments :
         /\ configuration = d.configuration
         /\ userIcons = d.userIcons
    /\ worker = IdleWorker
    /\ probes = {}
    /\ parse = NoParse
    /\ grouping = NoGrouping /\ request = NoRequest /\ refresh = NoRefresh
    /\ \E declared \in Declarations : manual = ManualCall(declared)

NextManual ==
    \/ ManualValidate
    \/ \E fetch \in Answers(IconFetches, selfhstIcons, selfhstCacheTime, selfhstCacheTTL) :
          ManualResolve(fetch)
    \/ \E fetch \in Answers(IconFetches, selfhstIcons, selfhstCacheTime, selfhstCacheTTL) :
          \E net \in ManualProbedAnswers : ManualFindIcon(fetch, net)
    \/ \E fetch \in Answers(AppFetches, selfhstApps, selfhstAppsCacheTime, selfhstAppsCacheTTL) :
          ManualFindTags(fetch)
    \/ ManualReturn

SpecManual == InitManual /\ [][NextManual]_vars

-----------------------------------------------------------------------------
(* Claims about the manual services, checked under SpecManual *)

\* The URL names a scheme and, after "://", a host: a host net/url rejects (a
\* blank in the name, a port that is no number) is none, and a bare port is one,
\* as it is for url.URL.Host.
HasSchemeAndHost(url) ==
    LET scheme == URLScheme(url)
        host == Before(URLHost(url), {"?", "#"}, 1)
    IN  /\ scheme # ""
        /\ IsLetter(Char(scheme, 1))
        /\ \A i \in 1..Len(scheme) :
              IsLetter(Char(scheme, i)) \/ IsDigit(Char(scheme, i))
              \/ Char(scheme, i) \in {"+", "-", "."}
        /\ host # ""
        /\ ~HostError(host)

NamesAndURLs(list) == [i \in 1..Len(list) |-> <<list[i].Name, list[i].URL>>]

-----------------------------------------------------------------------------
(* The services handler and its goroutines, with the cache mutexes: handlers.go *)

\* One goroutine of the fan-out: its record, its position in ProcessRouter, the
\* catalog getter it is in (catalog) and what it called it for (stage). What
\* ProcessRouter derives from the record and the configuration alone (derived)
\* is worked out once, with the record; the goroutine reads it when it starts.
Goroutine(router) ==
    [pc |-> "unborn", router |-> router,
     derived |-> [routerName |-> RouterName(router),
                  serviceURL |-> ReconstructURL(router, EntryPointsMap),
                  drop |-> DropReason(router, EntryPointsMap)],
     routerName |-> "", serviceURL |-> "",
     displayName |-> "", reference |-> "", catalog |-> "", stage |-> "", icon |-> "",
     ok |-> FALSE, service |-> NoService]

\* A request after both Traefik listings have arrived.
Request(routers) ==
    [pc |-> "spawn", routers |-> routers, wg |-> 0, serviceChan |-> <<>>, closed |-> FALSE,
     traefikServices |-> <<>>, response |-> <<>>,
     goroutines |-> [w \in 1..Len(routers) |-> Goroutine(routers[w])]]

\* The write locks of the two cache mutexes (the goroutine that holds each, 0 for
\* none), the fetches started, the fetches that filled the cache, and the returns
\* of cached data from under the write lock.
Mutexes ==
    [selfhstCacheMux |-> 0, selfhstAppsCacheMux |-> 0,
     fetches |-> [icons |-> 0, apps |-> 0], refreshed |-> [icons |-> 0, apps |-> 0],
     rechecked |-> [icons |-> 0, apps |-> 0]]

Workers == DOMAIN request.goroutines

Unborn == {w \in Workers : request.goroutines[w].pc = "unborn"}

CatalogData(c) == IF c = "icons" THEN selfhstIcons ELSE selfhstApps
CatalogTime(c) == IF c = "icons" THEN selfhstCacheTime ELSE selfhstAppsCacheTime
CatalogTTL(c) == IF c = "icons" THEN selfhstCacheTTL ELSE selfhstAppsCacheTTL
CatalogFresh(c) == Fresh(CatalogData(c), CatalogTime(c), CatalogTTL(c))
Mutex(c) == IF c = "icons" THEN refresh.selfhstCacheMux ELSE refresh.selfhstAppsCacheMux

\* A channel with room for all results but one.
ChanCap_OneShort == Len(request.routers) - 1

\* make(chan models.Service, len(routers))
ChanCap == Len(request.routers)

\* wg.Wait() returning although goroutines are still at work.
WaitGroupZero_Early == TRUE

\* wg.Wait() returns: the counter is zero.
WaitGroupZero == request.wg = 0

\* The second freshness test left out.
DoubleCheck_Skipped(c) == FALSE

\* The second freshness test, made under the write lock.
DoubleCheck(c) == CatalogFresh(c)

\* A return path that leaves the write lock with the goroutine.
ReleasedBy_Kept(w) == w

\* defer Unlock(): whoever returns from the getter leaves the mutex free.
ReleasedBy(w) == 0

\* What the caller of a catalog getter does with (ret, err): the reference it
\* resolves, the icon of tier 3, or the tags and the Service it returns.
AfterCatalog(g, ret, err) ==
    LET matches == FindFold(ReplaceAll(g.displayName, " ", "-"), References(ret))
        hit == Lookup(ret, g.reference)
    IN  IF g.stage = "resolve"
        THEN [g EXCEPT !.pc = "icon", !.catalog = "", !.stage = "",
                       !.reference = IF err THEN ""
                                     ELSE IF Len(matches) > 0 THEN matches[1] ELSE ""]
        ELSE IF g.stage = "icon"
        THEN [g EXCEPT !.pc = "tags", !.catalog = "", !.stage = "",
                       !.icon = IF err \/ hit = <<>> THEN ""
                                ELSE IF hit[1].SVG = "Yes"
                                THEN configuration.SelfhstIconURL \o "svg/"
                                     \o hit[1].Reference \o ".svg"
                                ELSE configuration.SelfhstIconURL \o "png/"
                                     \o hit[1].Reference \o ".png"]
        ELSE [g EXCEPT !.pc = "send", !.catalog = "", !.stage = "", !.ok = TRUE,
                       !.service = Service(g.displayName, g.serviceURL, g.router.Priority,
                                           g.icon,
                                           IF err \/ hit = <<>> THEN <<>> ELSE hit[1].Tags,
                                           GetGroupOverride(g.routerName))]

\* What a handler step leaves alone.
HandlerFrame == UNCHANGED <<now, lastCall, configuration, worker, userIcons, probes, parse,
                            grouping, manual>>

CachesUnchanged == UNCHANGED <<selfhstIcons, selfhstCacheTime, selfhstApps,
                               selfhstAppsCacheTime>>

\* for _, r := range routers { wg.Add(1); go func(r) {...}(r) }: the next goroutine.
ServicesHandlerGo ==
    /\ request.pc = "spawn"
    /\ Unborn # {}
    /\ LET w == CHOOSE v \in Unborn : \A u \in Unborn : v <= u IN
         request' = [request EXCEPT !.wg = @ + 1, !.goroutines[w].pc = "start"]
    /\ UNCHANGED refresh /\ CachesUnchanged /\ HandlerFrame

\* wg.Wait(); close(serviceChan)
ServicesHandlerWait ==
    /\ request.pc = "spawn"
    /\ Unborn = {}
    /\ WaitGroupZero
    /\ request' = [request EXCEPT !.pc = "drain", !.closed = TRUE]
    /\ UNCHANGED refresh /\ CachesUnchanged /\ HandlerFrame

\* for service := range serviceChan { traefikServices = append(...) }
ServicesHandlerCollect ==
    /\ request.pc = "drain"
    /\ IF request.serviceChan # <<>>
       THEN request' = [request EXCEPT !.traefikServices = Append(@, Head(request.serviceChan)),
                                       !.serviceChan = Tail(@)]
       ELSE request' = [request EXCEPT !.pc = "collected"]
    /\ UNCHANGED refresh /\ CachesUnchanged /\ HandlerFrame

\* sort.Slice with less = (Priority of i > Priority of j): for the slices of the
\* model (under 12 elements) the library sorts by insertion, which leaves
\* services of equal priority in the order they came in.
RECURSIVE InsertByPriority(_, _)
InsertByPriority(x, sorted) ==
    IF sorted = <<>> THEN <<x>>
    ELSE LET last == sorted[Len(sorted)] IN
         IF x.Priority > last.Priority
         THEN InsertByPriority(x, SubSeq(sorted, 1, Len(sorted) - 1)) \o <<last>>
         ELSE sorted \o <<x>>

RECURSIVE SortByPriority(_)
SortByPriority(services) ==
    IF services = <<>> THEN <<>>
    ELSE InsertByPriority(services[Len(services)],
                          SortByPriority(SubSeq(services, 1, Len(services) - 1)))

\* The rest of ServicesHandler: the manual services (none are declared in the
\* deployment of this specification) are appended, CalculateGroups runs (grouping
\* is disabled in it: the labels are cleared), the slice is sorted and encoded.
ServicesHandlerRespond ==
    /\ request.pc = "collected"
    /\ LET manualServices == <<>>
           finalServices == request.traefikServices \o manualServices
       IN  request' = [request EXCEPT !.pc = "responded",
                                      !.response = SortByPriority(ClearGroups(finalServices))]
    /\ UNCHANGED refresh /\ CachesUnchanged /\ HandlerFrame

\* ProcessRouter up to its first catalog call: the record is dropped, or the
\* goroutine calls ResolveSelfHstReference, which asks for the icon catalog.
GoProcessRouter(w) ==
    /\ request.goroutines[w].pc = "start"
    /\ LET g == request.goroutines[w] IN
         request' = [request EXCEPT !.goroutines[w] =
            IF g.derived.drop # ""
            THEN [g EXCEPT !.pc = "done", !.routerName = g.derived.routerName]
            ELSE [g EXCEPT !.pc = "read", !.catalog = "icons", !.stage = "resolve",
                           !.routerName = g.derived.routerName,
                           !.serviceURL = g.derived.serviceURL,
                           !.displayName = DisplayName(g.derived.routerName)]]
    /\ UNCHANGED refresh /\ CachesUnchanged /\ HandlerFrame

\* A getter's first test, under the read lock: fresh data is returned, otherwise
\* the goroutine goes for the write lock.
CatalogRead(w) ==
    /\ request.goroutines[w].pc = "read"
    /\ LET g == request.goroutines[w] IN
         /\ Mutex(g.catalog) = 0
         /\ request' = [request EXCEPT !.goroutines[w] =
                          IF CatalogFresh(g.catalog)
                          THEN AfterCatalog(g, CatalogData(g.catalog), FALSE)
                          ELSE [g EXCEPT !.pc = "lock"]]
    /\ UNCHANGED refresh /\ CachesUnchanged /\ HandlerFrame

\* Lock() and the second test: the data another goroutine cached meanwhile is
\* returned, otherwise the request for the catalog goes out with the lock held.
CatalogLock(w) ==
    /\ request.goroutines[w].pc = "lock"
    /\ LET g == request.goroutines[w] IN
         /\ Mutex(g.catalog) = 0
         /\ IF DoubleCheck(g.catalog)
            THEN /\ request' = [request EXCEPT !.goroutines[w] =
                                  AfterCatalog(g, CatalogData(g.catalog), FALSE)]
                 /\ refresh' = [refresh EXCEPT !.rechecked[g.catalog] = @ + 1]
            ELSE /\ request' = [request EXCEPT !.goroutines[w].pc = "fetch"]
                 /\ refresh' = [refresh EXCEPT
                                  !.selfhstCacheMux = IF g.catalog = "icons" THEN w ELSE @,
                                  !.selfhstAppsCacheMux = IF g.catalog = "apps" THEN w ELSE @,
                                  !.fetches[g.catalog] = @ + 1]
    /\ CachesUnchanged /\ HandlerFrame

\* The answer to the catalog request arrives: the cache is replaced or the error
\* returned, and the deferred Unlock runs.
CatalogFetched(w, fetch) ==
    /\ request.goroutines[w].pc = "fetch"
    /\ LET g == request.goroutines[w]
           r == GetCatalog(CatalogData(g.catalog), CatalogTime(g.catalog),
                           CatalogTTL(g.catalog), fetch)
       IN  /\ fetch \in (IF g.catalog = "icons" THEN IconFetches ELSE AppFetches)
           /\ request' = [request EXCEPT !.goroutines[w] = AfterCatalog(g, r.ret, r.err)]
           /\ refresh' = [refresh EXCEPT
                            !.selfhstCacheMux = IF g.catalog = "icons" THEN ReleasedBy(w) ELSE @,
                            !.selfhstAppsCacheMux = IF g.catalog = "apps" THEN ReleasedBy(w) ELSE @,
                            !.refreshed[g.catalog] = IF ~r.err /\ r.data # <<>> THEN @ + 1 ELSE @]
           /\ IF g.catalog = "icons"
              THEN /\ selfhstIcons' = r.data /\ selfhstCacheTime' = r.time
                   /\ UNCHANGED <<selfhstApps, selfhstAppsCacheTime>>
              ELSE /\ selfhstApps' = r.data /\ selfhstAppsCacheTime' = r.time
                   /\ UNCHANGED <<selfhstIcons, selfhstCacheTime>>
    /\ HandlerFrame

\* FindIcon up to its first call out: tier 1 and tier 2 answer at once, tier 3
\* asks for the icon catalog, and without a reference the favicon is probed.
GoFindIcon(w) ==
    /\ request.goroutines[w].pc = "icon"
    /\ LET g == request.goroutines[w]
           iconValue == GetIconOverride(g.routerName)
           userIcon == FindUserIcon(ReplaceAll(g.displayName, " ", "-"))
       IN  request' = [request EXCEPT !.goroutines[w] =
              IF iconValue # "" THEN [g EXCEPT !.pc = "tags", !.icon = OverrideIcon(iconValue)]
              ELSE IF userIcon # "" THEN [g EXCEPT !.pc = "tags", !.icon = userIcon]
              ELSE IF g.reference # ""
              THEN [g EXCEPT !.pc = "read", !.catalog = "icons", !.stage = "icon"]
              ELSE [g EXCEPT !.pc = "favicon"]]
    /\ UNCHANGED refresh /\ CachesUnchanged /\ HandlerFrame

\* The HEAD request for /favicon.ico returns.
FaviconReturn(w, valid) ==
    /\ request.goroutines[w].pc = "favicon"
    /\ LET g == request.goroutines[w] IN
         request' = [request EXCEPT !.goroutines[w] =
            IF valid THEN [g EXCEPT !.pc = "tags", !.icon = FaviconURL(g.serviceURL)]
            ELSE [g EXCEPT !.pc = "page"]]
    /\ UNCHANGED refresh /\ CachesUnchanged /\ HandlerFrame

\* The GET request for the service's page returns, with or without an icon link.
PageReturn(w, link) ==
    /\ request.goroutines[w].pc = "page"
    /\ request' = [request EXCEPT !.goroutines[w].pc = IF link THEN "image" ELSE "tags"]
    /\ UNCHANGED refresh /\ CachesUnchanged /\ HandlerFrame

\* The HEAD request for the linked icon returns.
ImageReturn(w, valid) ==
    /\ request.goroutines[w].pc = "image"
    /\ LET g == request.goroutines[w] IN
         request' = [request EXCEPT !.goroutines[w] =
            [g EXCEPT !.pc = "tags",
                      !.icon = IF valid THEN LinkedIconURL(g.serviceURL) ELSE ""]]
    /\ UNCHANGED refresh /\ CachesUnchanged /\ HandlerFrame

\* FindTags: nothing to look up without a reference, otherwise the app catalog.
GoFindTags(w) ==
    /\ request.goroutines[w].pc = "tags"
    /\ LET g == request.goroutines[w] IN
         request' = [request EXCEPT !.goroutines[w] =
            IF g.reference = "" THEN AfterCatalog([g EXCEPT !.stage = "tags"], <<>>, FALSE)
            ELSE [g EXCEPT !.pc = "read", !.catalog = "apps", !.stage = "tags"]]
    /\ UNCHANGED refresh /\ CachesUnchanged /\ HandlerFrame

\* if ok { serviceChan <- service }: a send on a closed channel panics.
GoSend(w) ==
    /\ request.goroutines[w].pc = "send"
    /\ IF request.closed
       THEN request' = [request EXCEPT !.goroutines[w].pc = "panic"]
       ELSE /\ Len(request.serviceChan) < ChanCap
            /\ request' = [request EXCEPT
                             !.serviceChan = Append(@, request.goroutines[w].service),
                             !.goroutines[w].pc = "done"]
    /\ UNCHANGED refresh /\ CachesUnchanged /\ HandlerFrame

\* defer wg.Done()
GoDone(w) ==
    /\ request.goroutines[w].pc = "done"
    /\ request' = [request EXCEPT !.wg = @ - 1, !.goroutines[w].pc = "exit"]
    /\ UNCHANGED refresh /\ CachesUnchanged /\ HandlerFrame

\* A routing record with the priority Traefik reports for it.
Prioritized(router, priority) == [router EXCEPT !.Priority = priority]

\* The router listings of the requests of the model: records that are dropped,
\* records whose icon comes from an override or from the icons directory, records
\* the catalogs know and records whose site has to be probed.
Listings ==
    { << Router("plex@docker", "Host('plex.example.com')", <<"web">>, "{\"certResolver\":\"le\"}"),
         Prioritized(Router("unknown-svc@docker", "Host('u.example.com')", <<"web">>, NilTLS), 7),
         Router("web-api@docker", "Host('api.example.com')", <<"web">>, NilTLS) >>,
      << Router("unknown-svc@docker", "Host('u.example.com')", <<"web">>, NilTLS),
         Router("sonarr@docker", "Host('sonarr.example.com') && PathPrefix('/app/')", <<"alt">>, NilTLS) >>,
      << Router("X@docker", "Host('x.example.com')", <<"web">>, NilTLS),
         Router("nohost@docker", "PathPrefix('/x')", <<"web">>, NilTLS),
         Prioritized(Router("WEB-Radarr@docker", "Host('radarr.example.com')", <<"web">>, NilTLS), 7) >> }

\* An icon catalog cached more than an hour ago.
StaleIcons == << Icon("plex", "No") >>

\* A request arrives with both caches cold, or with an icon catalog gone stale.
InitHandler ==
    /\ now = Boot
    /\ \E stale \in BOOLEAN :
         /\ selfhstIcons = IF stale THEN StaleIcons ELSE <<>>
         /\ selfhstCacheTime = IF stale THEN Boot - selfhstCacheTTL - 1 ELSE ZeroTime
    /\ selfhstApps = <<>> /\ selfhstAppsCacheTime = ZeroTime
    /\ lastCall = NoCall
    /\ configuration = Configuration("http://traefik:8080", <<"[bad", "web-api">>, <<>>)
    /\ userIcons = UserIcons(("sonarr" :> "/icons/sonarr.png") @@ ("x-ray" :> "/icons/X-Ray.svg"))
    /\ worker = IdleWorker
    /\ probes = {}
    /\ parse = NoParse
    /\ grouping = NoGrouping
    /\ manual = NoManual
    /\ \E routers \in Listings : request = Request(routers)
    /\ refresh = Mutexes

\* The steps that need no answer from a service's own site.
GoStep(w) ==
    \/ GoProcessRouter(w)
    \/ CatalogRead(w)
    \/ CatalogLock(w)
    \/ \E fetch \in IconFetches \cup AppFetches : CatalogFetched(w, fetch)
    \/ GoFindIcon(w)
    \/ GoFindTags(w)
    \/ GoSend(w)
    \/ GoDone(w)

\* The answers of a service's own site.
ProbeReturn(w) ==
    \/ \E valid \in BOOLEAN : FaviconReturn(w, valid)
    \/ \E link \in BOOLEAN : PageReturn(w, link)
    \/ \E valid \in BOOLEAN : ImageReturn(w, valid)

NextHandler ==
    \/ ServicesHandlerGo
    \/ ServicesHandlerWait
    \/ ServicesHandlerCollect
    \/ ServicesHandlerRespond
    \/ \E w \in Workers : GoStep(w)
    \/ \E w \in Workers : ProbeReturn(w)

SpecHandler == InitHandler /\ [][NextHandler]_vars

\* The Go scheduler runs every goroutine that can run, and the HTTP client gives
\* up on a catalog request after its timeout; nothing makes a probed site answer.
HandlerFairness ==
    WF_vars(ServicesHandlerGo \/ ServicesHandlerWait \/ ServicesHandlerCollect
            \/ ServicesHandlerRespond \/ \E w \in Workers : GoStep(w))

\* Requests for two records, each with a record whose site is probed.
Pairs ==
    { << Router("unknown-svc@docker", "Host('u.example.com')", <<"web">>, NilTLS),
         Prioritized(Router("plex@docker", "Host('plex.example.com')", <<"web">>, "{\"certResolver\":\"le\"}"), 7) >>,
      << Router("WEB-Radarr@docker", "Host('radarr.example.com')", <<"web">>, NilTLS),
         Router("unknown-svc@docker", "Host('u.example.com')", <<"internal">>, NilTLS) >> }

InitPair ==
    /\ ColdCaches
    /\ configuration = Configuration("http://traefik:8080", <<"[bad", "web-api">>, <<>>)
    /\ userIcons = NoUserIcons
    /\ worker = IdleWorker
    /\ probes = {}
    /\ parse = NoParse
    /\ grouping = NoGrouping
    /\ manual = NoManual
    /\ \E routers \in Pairs : request = Request(routers)
    /\ refresh = Mutexes

SpecHandlerFair == InitPair /\ [][NextHandler]_vars /\ HandlerFairness

\* Every network call returns: the probed sites answer too, or the HTTP client
\* gives up on them after its timeout.
SpecHandlerLive == InitPair /\ [][NextHandler]_vars /\ WF_vars(NextHandler)

-----------------------------------------------------------------------------
(* Claims about the fan-out of the services handler, checked under SpecHandler *)

\* The goroutines whose record passes every check of ProcessRouter.
Accepted == {w \in Workers : DropReason(request.routers[w], EntryPointsMap) = ""}

\* How many of the collected services are service s.
Collected(s) ==
    Cardinality({i \in 1..Len(request.traefikServices) : request.traefikServices[i] = s})

\* C11: ServicesHandler collects results only after every goroutine has finished,
\* and what it has collected holds exactly one service per accepted record and
\* none for a dropped one.
C11_CollectAfterAll ==
    /\ request.pc \in {"drain", "collected"} =>
          \A w \in Workers : request.goroutines[w].pc = "exit"
    /\ request.pc = "collected" =>
          /\ Len(request.traefikServices) = Cardinality(Accepted)
          /\ \A w \in Accepted :
                /\ request.goroutines[w].ok
                /\ request.goroutines[w].service.URL =
                      ReconstructURL(request.routers[w], EntryPointsMap)
                /\ Collected(request.goroutines[w].service) = 1
          /\ \A w \in Workers \ Accepted : ~request.goroutines[w].ok

\* A request that dropped a record and has collected the services of two others.
C11_Witness ==
    /\ request.pc = "collected"
    /\ Cardinality(Accepted) = 2
    /\ Workers \ Accepted # {}
    /\ Len(request.traefikServices) = 2

\* The goroutines whose request for catalog c is in flight.
Fetching(c) ==
    {w \in Workers : request.goroutines[w].pc = "fetch" /\ request.goroutines[w].catalog = c}

\* C18 as stated: goroutines that find a cache stale together fetch the catalog
\* at most once between them.
C18_FetchedOnce ==
    \A c \in {"icons", "apps"} : refresh.fetches[c] <= 1

\* C18: of the goroutines that find a cache stale together at most one has a fetch
\* in flight at a time and at most one fetch fills the cache; once one has, every
\* later holder of the write lock returns the cached data and none starts a fetch.
\* A fetch that fails or brings an empty catalog leaves the next holder to fetch.
C18_FetchOncePerRefresh ==
    \A c \in {"icons", "apps"} :
        /\ Cardinality(Fetching(c)) <= 1
        /\ Fetching(c) # {} <=> Mutex(c) # 0
        /\ refresh.refreshed[c] <= 1
        /\ refresh.refreshed[c] = 1 => CatalogFresh(c) /\ Fetching(c) = {}
        /\ refresh.rechecked[c] > 0 => refresh.refreshed[c] = 1
        /\ refresh.fetches[c] <= Cardinality(Workers)

\* One fetch filled the icon cache and a goroutine that had found it stale got
\* the cached catalog from under the write lock.
C18_Witness ==
    /\ refresh.fetches["icons"] = 1
    /\ refresh.refreshed["icons"] = 1
    /\ refresh.rechecked["icons"] > 0

-----------------------------------------------------------------------------
(* Claims about goroutines suspended in a probe, checked under SpecHandlerFair *)

\* The goroutines suspended in a request to their own service's site: the HEAD
\* for the favicon, the GET for the page, the HEAD for the linked image.
Probing == {w \in Workers : request.goroutines[w].pc \in {"favicon", "page", "image"}}

HoldsLock(w) == refresh.selfhstCacheMux = w \/ refresh.selfhstAppsCacheMux = w

\* Every goroutine has finished or is suspended in a probe of its own site.
Settled == \A w \in Workers : w \in Probing \/ request.goroutines[w].pc = "exit"

\* C12: a goroutine suspended in a probe of its own site holds neither cache
\* mutex, and whether or not the probed sites ever answer, every other goroutine
\* runs on until it has finished or is itself suspended in a probe of its own.
C12_ProbeBlocksNobody ==
    /\ [](\A w \in Probing : ~HoldsLock(w))
    /\ <>Settled

\* One goroutine is suspended in a probe, having fetched the icon catalog itself,
\* and another has gone through both catalogs and finished with its tags.
C12_Witness ==
    \E w \in Probing : \E v \in Workers \ {w} :
        /\ request.goroutines[v].pc = "exit"
        /\ request.goroutines[v].ok
        /\ request.goroutines[v].service.Tags # <<>>
        /\ refresh.rechecked["icons"] = 0

-----------------------------------------------------------------------------
(* Claims about the response of the services handler *)

\* The services the goroutines built, in the order of the records they are for.
RECURSIVE InRecordOrder(_)
InRecordOrder(w) ==
    IF w > Len(request.routers) THEN <<>>
    ELSE (IF request.goroutines[w].ok THEN <<request.goroutines[w].service>> ELSE <<>>)
         \o InRecordOrder(w + 1)

\* C22 as claimed: the response lists the services in non-increasing priority,
\* and it is the same sequence whichever way the goroutines interleaved: the one
\* the handler emits when the results arrive in the order of the records.
C22_OneOrder ==
    request.pc = "responded" =>
        /\ \A i, j \in 1..Len(request.response) :
              i < j => request.response[i].Priority >= request.response[j].Priority
        /\ request.response = SortByPriority(ClearGroups(InRecordOrder(1)))

\* The goroutines that have a service to send, or have sent it.
Sent == {w \in Workers : request.goroutines[w].ok
                         /\ request.goroutines[w].pc \in {"done", "exit"}}

\* C29: the fan-out and join of ServicesHandler neither panics nor deadlocks: a
\* goroutine ready to send finds room in the channel, which holds at most one
\* service per goroutine and is closed only when all of them have finished, a
\* cache mutex is held only by a goroutine whose catalog request is in flight,
\* and with every network call returning the handler reaches its response.
C29_NoDeadlockNoPanic ==
    /\ [](request.pc # "idle" =>
            /\ \A w \in Workers :
                  /\ request.goroutines[w].pc # "panic"
                  /\ request.goroutines[w].pc = "send" =>
                        ~request.closed /\ Len(request.serviceChan) < ChanCap
            /\ Len(request.serviceChan) + Len(request.traefikServices) = Cardinality(Sent)
            /\ request.closed => \A w \in Workers : request.goroutines[w].pc = "exit"
            /\ \A c \in {"icons", "apps"} :
                  Mutex(c) # 0 => request.goroutines[Mutex(c)].pc = "fetch")
    /\ <>(request.pc = "responded")

\* C29 witness: both goroutines have sent, the channel is full and not yet closed.
C29_Witness ==
    /\ request.pc = "spawn"
    /\ Len(request.serviceChan) = 2
    /\ ChanCap = 2
    /\ \A w \in Workers : request.goroutines[w].pc = "exit"

====
